---- MODULE Spec2Model ----
(***************************************************************************)
(* Model of the number-loom solver core: the Cell bitmask, the line solver *)
(* (skim_line, scrub_line, packed_extents and the heuristics of            *)
(* src/line_solve.rs) and the grid scheduler (solve_grid of                *)
(* src/grid_solve.rs).                                                     *)
(*                                                                         *)
(* A Cell's u32 mask is modelled as the set of the bit positions that are  *)
(* set; a lane is a sequence of Cells, index i of the code being element   *)
(* i + 1 of the sequence.  A Nono clue is a record [color, count]; a       *)
(* Triano clue is a record [front_cap, body_len, body_color, back_cap]     *)
(* with None for an absent cap.                                            *)
(***************************************************************************)
EXTENDS Integers, Sequences, FiniteSets, TLC

VARIABLES
    clues,      \* line solver: the clue vector of the lane under test
    lane,       \* line solver: the lane before the call
    op,         \* line solver: "none", or the routine(s) that ran
    out,        \* line solver: the outcome of the first call
    out2,       \* line solver: the outcome of the follow-up call, if any
    picture,    \* the Solution the row clues of the puzzle were derived from
    puzzle,     \* [palette, rows, cols]
    options,    \* SolveOptions: [max_effort, only_solve_color]
    seed,       \* the grid handed to solve_grid
    grid,       \* solve_grid: the partial grid
    solve_lanes,        \* solve_grid: the LaneState of every row, then column
    cells_left,         \* solve_grid
    solve_counts,       \* solve_grid: invocations per mode
    allowed_failures,   \* solve_grid: the budget per mode
    line_cache,         \* the caller's Option<LineCache>
    pc,         \* "idle", "loop", "done" (Ok(Report)), "err" (Err), "panic"
    report,     \* the Report returned
    solves,     \* the number of solves started with this cache
    raised,     \* the line-solver calls of this run that returned Err
    scorer_pc,  \* disambig_candidates: "idle", "cell", "check", "done",
                \* "cancelled", "panic"
    solve_cache,        \* disambig_candidates: the DynSolveCache
    orig_cells_left,    \* disambig_candidates: cells_left of the baseline
    res,        \* disambig_candidates: the array of (Color, f32)
    next_cell,  \* disambig_candidates: x * y_size + y of the cell to come
    keys,       \* the order in which s.palette.keys() yields the colors
    sent,       \* the values sent on the progress channel, in order
    fired,      \* a message was sent on the terminate channel
    late_cells, \* the cells scored from start to end after it was sent
    progress_r, \* the Disambiguator that holds the receivers is still there
    document,   \* CanvasGui: the grid of the document's Solution
    undo_stack,         \* CanvasGui
    redo_stack,         \* CanvasGui
    drag_start_color,   \* CanvasGui
    line_tool_state,    \* CanvasGui: <<>> for None, <<c>> for Some(c)
    current_tool,       \* CanvasGui: "Pencil" or "OrthographicLine"
    pointer_down,       \* a pointer button is held down on the canvas
    edit_phase, \* "none", or "edited", "undone", "redone": what became of
                \* the last pencil edit
    stroke_before,      \* the document before the press of the last stroke
    edit_before,        \* the document before the last pencil edit
    edit_after,         \* the document after it
    solution,   \* the partial Solution a grid is seeded from
    seeded_by,  \* "none", "to_partial" or "grid_from_solution"
    partial,    \* the grid seeded from it
    techniques, \* what analyze_lines returned: [rows, cols, status]
    heuristic   \* what skim_heuristic returned for the lane under test

lvars == <<clues, lane, op, out, out2>>
gvars == <<picture, puzzle, options, seed, grid, solve_lanes, cells_left,
           solve_counts, allowed_failures, line_cache, pc, report, solves,
           raised>>
svars == <<scorer_pc, solve_cache, orig_cells_left, res, next_cell, keys, sent,
           fired, late_cells, progress_r>>
\* The variables of the components around the solver
evars == <<document, undo_stack, redo_stack, drag_start_color, line_tool_state,
           current_tool, pointer_down, edit_phase, stroke_before, edit_before,
           edit_after>>
\* What only the pointer and the tool selector change
tvars == <<line_tool_state, current_tool, pointer_down>>
\* The variables of seeding and line analysis
avars == <<solution, seeded_by, partial, techniques, heuristic>>
xvars == <<svars, evars, avars>>
vars == <<lvars, gvars, xvars>>

----------------------------------------------------------------------------
(* Bounds *)

MaxLen == 4
MaxColorLen == MaxLen - 1
\* The length of the long lanes of three one-cell clues
LongLen == 7
\* The canvas of the editor and the depth of its undo stack
EdWidth == 3
EdHeight == 1
MaxUndo == 2

----------------------------------------------------------------------------
(* Colors and Cells *)

BACKGROUND == 0
UNSOLVED == 255
None == -1

\* The palette of the lanes under test: background and two foreground colors.
Palette == {0, 1, 2}

Min(S) == CHOOSE x \in S : \A y \in S : x <= y
Max(S) == CHOOSE x \in S : \A y \in S : x >= y

from_color(color) == {color}
new_impossible == {}
is_known(cell) == \E c \in cell : cell = {c}
is_known_to_be(cell, color) == cell = {color}
can_be(cell, color) == color \in cell
known_or(cell) == IF is_known(cell) THEN CHOOSE c \in cell : TRUE ELSE None

\* Fault injection for AffectedExact: learn reports a change also when the
\* cell was known already
learn_always_reports(cell, color) ==
    IF ~can_be(cell, color)
    THEN [ok |-> FALSE, cell |-> cell, changed |-> FALSE]
    ELSE [ok |-> TRUE, cell |-> {color}, changed |-> TRUE]

\* Cell::learn: [ok, cell, changed]
learn(cell, color) ==
    IF ~can_be(cell, color)
    THEN [ok |-> FALSE, cell |-> cell, changed |-> FALSE]
    ELSE [ok |-> TRUE, cell |-> {color}, changed |-> ~is_known(cell)]

\* Fault injection for DeductionMonotone: the mask is overwritten with the
\* possibilities instead of being intersected with them
learn_intersect_overwrite(cell, possible) ==
    IF cell \cap possible = {}
    THEN [ok |-> FALSE, cell |-> cell, changed |-> FALSE]
    ELSE [ok |-> TRUE, cell |-> possible, changed |-> possible # cell]

learn_intersect(cell, possible) ==
    IF cell \cap possible = {}
    THEN [ok |-> FALSE, cell |-> cell, changed |-> FALSE]
    ELSE [ok |-> TRUE, cell |-> cell \cap possible,
          changed |-> (cell \cap possible) # cell]

learn_that_not(cell, color) ==
    IF is_known_to_be(cell, color)
    THEN [ok |-> FALSE, cell |-> cell, changed |-> FALSE]
    ELSE [ok |-> TRUE, cell |-> cell \ {color}, changed |-> can_be(cell, color)]

----------------------------------------------------------------------------
(* Clues *)

Nono(color, count) == [color |-> color, count |-> count]
Triano(front_cap, body_len, body_color, back_cap) ==
    [front_cap |-> front_cap, body_len |-> body_len,
     body_color |-> body_color, back_cap |-> back_cap]

IsNono(c) == "count" \in DOMAIN c

len(c) ==
    IF IsNono(c) THEN c.count
    ELSE c.body_len + (IF c.front_cap # None THEN 1 ELSE 0)
                    + (IF c.back_cap # None THEN 1 ELSE 0)

color_at(c, idx) ==
    IF IsNono(c) THEN c.color
    ELSE IF idx = 0 /\ c.front_cap # None THEN c.front_cap
    ELSE IF c.back_cap # None /\ idx = len(c) - 1 THEN c.back_cap
    ELSE c.body_color

must_be_separated_from(c, next) ==
    IF IsNono(c) THEN c.color = next.color
    ELSE c.body_color = next.body_color /\ c.back_cap = None
         /\ next.front_cap = None

----------------------------------------------------------------------------
(* Line solver: a working state [lane, affected, status] is threaded       *)
(* through the learn_cell calls; status is "ok", "err" (the Err of an      *)
(* anyhow::Result) or "panic" (an index outside the lane).                 *)

Start(l) == [lane |-> l, affected |-> <<>>, status |-> "ok"]

Apply(st, idx, r) ==
    IF ~r.ok THEN [st EXCEPT !.status = "err"]
    ELSE [lane |-> [st.lane EXCEPT ![idx + 1] = r.cell],
          affected |-> IF r.changed THEN Append(st.affected, idx) ELSE st.affected,
          status |-> "ok"]

InLane(st, idx) == idx >= 0 /\ idx < Len(st.lane)

learn_cell(color, st, idx) ==
    IF st.status # "ok" THEN st
    ELSE IF ~InLane(st, idx) THEN [st EXCEPT !.status = "panic"]
    ELSE Apply(st, idx, learn(st.lane[idx + 1], color))

learn_cell_intersect(possibilities, st, idx) ==
    IF st.status # "ok" THEN st
    ELSE IF ~InLane(st, idx) THEN [st EXCEPT !.status = "panic"]
    ELSE Apply(st, idx, learn_intersect(st.lane[idx + 1], possibilities))

learn_cell_not(color, st, idx) ==
    IF st.status # "ok" THEN st
    ELSE IF ~InLane(st, idx) THEN [st EXCEPT !.status = "panic"]
    ELSE Apply(st, idx, learn_that_not(st.lane[idx + 1], color))

\* learn_cell under an `if`
learn_cell_if(cond, color, st, idx) ==
    IF cond THEN learn_cell(color, st, idx) ELSE st

\* learn_cell(color, ..) for every index of lo..hi, in ascending order
RECURSIVE learn_range(_, _, _, _)
learn_range(color, st, lo, hi) ==
    IF lo > hi \/ st.status # "ok" THEN st
    ELSE learn_range(color, learn_cell(color, st, lo), lo + 1, hi)

RECURSIVE intersect_range(_, _, _, _)
intersect_range(possibilities, st, lo, hi) ==
    IF lo > hi \/ st.status # "ok" THEN st
    ELSE intersect_range(possibilities,
                         learn_cell_intersect(possibilities, st, lo), lo + 1, hi)

----------------------------------------------------------------------------
(* packed_extents *)

lane_at(l, reversed, idx) == IF reversed THEN l[Len(l) - idx] ELSE l[idx + 1]
clue_at(cs, reversed, idx) == IF reversed THEN cs[Len(cs) - idx] ELSE cs[idx + 1]
clue_color_at(clue, reversed, idx) ==
    IF reversed THEN color_at(clue, len(clue) - 1 - idx) ELSE color_at(clue, idx)

\* The `while !placeable` loop: the first position >= pos where the clue fits,
\* or None when the scan runs past the end of the lane (the bail!).
RECURSIVE place(_, _, _, _)
place(clue, l, reversed, pos) ==
    LET bad == {k \in 0..(len(clue) - 1) :
                   \/ pos + k >= Len(l)
                   \/ ~can_be(lane_at(l, reversed, pos + k),
                              clue_color_at(clue, reversed, k))}
    IN IF bad = {} THEN pos
       ELSE IF pos + Min(bad) >= Len(l) THEN None
       ELSE place(clue, l, reversed, pos + 1)

\* The packing loop over clue_idx; extents is the vector built so far.
RECURSIVE pack(_, _, _, _, _, _)
pack(cs, l, reversed, clue_idx, pos, extents) ==
    IF clue_idx = Len(cs) THEN [ok |-> TRUE, extents |-> extents]
    ELSE
      LET clue == clue_at(cs, reversed, clue_idx)
          sep == /\ clue_idx > 0
                 /\ LET last_clue == clue_at(cs, reversed, clue_idx - 1)
                    IN IF ~reversed
                       THEN must_be_separated_from(last_clue, clue)
                       ELSE must_be_separated_from(clue, last_clue)
          p == place(clue, l, reversed, IF sep THEN pos + 1 ELSE pos)
      IN IF p = None THEN [ok |-> FALSE, extents |-> extents]
         ELSE pack(cs, l, reversed, clue_idx + 1, p + len(clue),
                   Append(extents, p + len(clue) - 1))

\* The orphan pull-in loop, at (cur_extent_idx, i).
RECURSIVE pull_in(_, _, _, _, _, _)
pull_in(cs, l, reversed, extents, cur_extent_idx, i) ==
    IF ~can_be(lane_at(l, reversed, i), BACKGROUND)
    THEN LET pulled == IF extents[cur_extent_idx + 1] < i
                       THEN [extents EXCEPT ![cur_extent_idx + 1] = i]
                       ELSE extents
             i1 == pulled[cur_extent_idx + 1] + 1
                   - len(clue_at(cs, reversed, cur_extent_idx))
         IN IF cur_extent_idx = 0 \/ i1 = 0 THEN pulled
            ELSE pull_in(cs, l, reversed, pulled, cur_extent_idx - 1, i1 - 1)
    ELSE IF i = 0 THEN extents
    ELSE pull_in(cs, l, reversed, extents, cur_extent_idx, i - 1)

Reverse(s) == [k \in 1..Len(s) |-> s[Len(s) + 1 - k]]

\* The extents after the pull-in, un-reversed for the right packing
fix_up(cs, l, reversed, pulled) ==
    [ok |-> TRUE,
     extents |-> IF reversed
                 THEN [k \in 1..Len(cs) |-> Len(l) - Reverse(pulled)[k] - 1]
                 ELSE pulled]

\* packed_extents from the packing loop on
pull_in_packed(cs, l, reversed, packed) ==
    IF ~packed.ok THEN packed
    ELSE fix_up(cs, l, reversed,
                pull_in(cs, l, reversed, packed.extents, Len(cs) - 1, Len(l) - 1))

\* [ok, extents]; cs is not empty and l is not empty
packed_extents(cs, l, reversed) ==
    pull_in_packed(cs, l, reversed, pack(cs, l, reversed, 0, 0, <<>>))

----------------------------------------------------------------------------
(* skim_line *)

\* ClueAdjIterator: the gap flags of clue k (0-based)
gap_before(cs, k) == k > 0 /\ must_be_separated_from(cs[k], cs[k + 1])
gap_after(cs, k) == k < Len(cs) - 1 /\ must_be_separated_from(cs[k + 1], cs[k + 2])

\* The colors the clue may show at idx, given its wiggle room
clue_cell(clue, idx, left_extent, clue_wiggle_room) ==
    {color_at(clue, idx - left_extent + wiggle_idx) :
        wiggle_idx \in 0..clue_wiggle_room}

RECURSIVE write_overlap(_, _, _, _, _, _)
write_overlap(clue, st, idx, left_extent, right_extent, clue_wiggle_room) ==
    IF idx > right_extent \/ st.status # "ok" THEN st
    ELSE write_overlap(clue,
            learn_cell_intersect(
                clue_cell(clue, idx, left_extent, clue_wiggle_room), st, idx),
            idx + 1, left_extent, right_extent, clue_wiggle_room)

\* A fully pinned clue: Background on the adjacent cells the gaps call for
pinned_gaps(cs, st, k, left_extent, right_extent) ==
    IF (right_extent - left_extent) + 1 = len(cs[k + 1])
    THEN learn_cell_if(gap_after(cs, k), BACKGROUND,
                       learn_cell_if(gap_before(cs, k), BACKGROUND, st,
                                     left_extent - 1),
                       right_extent + 1)
    ELSE st

\* The body of the loop over the clues zipped with their two extents
overlap_clue(cs, st, k, left_extent, right_extent) ==
    IF left_extent > right_extent THEN st
    ELSE IF (right_extent - left_extent + 1) > len(cs[k + 1])
    THEN [st EXCEPT !.status = "err"]
    ELSE pinned_gaps(cs,
            write_overlap(cs[k + 1], st, left_extent, left_extent, right_extent,
                          len(cs[k + 1]) - 1 - (right_extent - left_extent)),
            k, left_extent, right_extent)

RECURSIVE overlap_loop(_, _, _, _, _)
overlap_loop(cs, st, k, left_packed_right_extents, right_packed_left_extents) ==
    IF k = Len(cs) \/ st.status # "ok" THEN st
    ELSE overlap_loop(cs,
            overlap_clue(cs, st, k, right_packed_left_extents[k + 1],
                         left_packed_right_extents[k + 1]),
            k + 1, left_packed_right_extents, right_packed_left_extents)

\* Fault injection for LineSolverSound: the background run between two blocks
\* starts on the last cell of the right-packed previous block, one cell early
RECURSIVE between_loop_one_early(_, _, _, _, _)
between_loop_one_early(cs, st, k, left_packed_right_extents, right_packed_left_extents) ==
    IF k >= Len(cs) - 1 \/ st.status # "ok" THEN st
    ELSE
      LET right_extent_prev == right_packed_left_extents[k + 1] + len(cs[k + 1]) - 1
          left_extent == left_packed_right_extents[k + 2] + 1 - len(cs[k + 2])
          st1 == IF left_extent = 0 THEN st
                 ELSE learn_range(BACKGROUND, st, right_extent_prev,
                                  left_extent - 1)
      IN between_loop_one_early(cs, st1, k + 1, left_packed_right_extents,
                                right_packed_left_extents)

\* Background between adjacent blocks: pair k is (clue k, clue k + 1)
RECURSIVE between_loop(_, _, _, _, _)
between_loop(cs, st, k, left_packed_right_extents, right_packed_left_extents) ==
    IF k >= Len(cs) - 1 \/ st.status # "ok" THEN st
    ELSE
      LET right_extent_prev == right_packed_left_extents[k + 1] + len(cs[k + 1]) - 1
          left_extent == left_packed_right_extents[k + 2] + 1 - len(cs[k + 2])
          st1 == IF left_extent = 0 THEN st
                 ELSE learn_range(BACKGROUND, st, right_extent_prev + 1,
                                  left_extent - 1)
      IN between_loop(cs, st1, k + 1, left_packed_right_extents,
                      right_packed_left_extents)

possible_colors(cs) ==
    {BACKGROUND} \cup
    UNION {{color_at(cs[k], i) : i \in 0..(len(cs[k]) - 1)} : k \in 1..Len(cs)}

\* The two edge loops: Background up to leftmost and from rightmost on
skim_edges(st, leftmost, rightmost) ==
    learn_range(BACKGROUND, learn_range(BACKGROUND, st, 0, leftmost),
                rightmost, Len(st.lane) - 1)

\* skim_line from the two packings on
skim_packed(cs, st, left_packed_right_extents, right_packed_left_extents) ==
    skim_edges(
        between_loop(cs,
            overlap_loop(cs, st, 0, left_packed_right_extents,
                         right_packed_left_extents),
            0, left_packed_right_extents, right_packed_left_extents),
        left_packed_right_extents[1] - len(cs[1]),
        right_packed_left_extents[Len(cs)] + len(cs[Len(cs)]))

\* skim_line from the cells restricted to the possible colors on; lpr and rpl
\* are the outcomes of the left and of the right packing
skim_extents(cs, st, lpr, rpl) ==
    IF st.status # "ok" THEN st
    ELSE IF ~lpr.ok \/ ~rpl.ok THEN [st EXCEPT !.status = "err"]
    ELSE skim_packed(cs, st, lpr.extents, rpl.extents)

\* skim_line after the loop that restricts every cell to the possible colors
skim_restricted(cs, st) ==
    skim_extents(cs, st, packed_extents(cs, st.lane, FALSE),
                 packed_extents(cs, st.lane, TRUE))

skim_line(cs, l) ==
    IF cs = <<>> THEN learn_range(BACKGROUND, Start(l), 0, Len(l) - 1)
    ELSE skim_restricted(cs,
            intersect_range(possible_colors(cs), Start(l), 0, Len(l) - 1))

----------------------------------------------------------------------------
(* scrub_line *)

\* The colors of a mask in the order of can_be_iter (ascending bit index)
RECURSIVE can_be_iter(_)
can_be_iter(cell) ==
    IF cell = {} THEN <<>>
    ELSE <<Min(cell)>> \o can_be_iter(cell \ {Min(cell)})

\* The match on the outcome hyp of skim_line on the hypothetical lane
scrub_color(st, i, color, hyp) ==
    IF hyp.status = "ok" THEN st
    ELSE IF hyp.status = "panic" THEN [st EXCEPT !.status = "panic"]
    ELSE learn_cell_not(color, st, i)

\* The loop over the colors of cell i (colors is what is left of the iterator)
RECURSIVE scrub_colors(_, _, _, _)
scrub_colors(cs, st, i, colors) ==
    IF colors = <<>> \/ st.status # "ok" THEN st
    ELSE scrub_colors(cs,
            scrub_color(st, i, Head(colors),
                skim_line(cs, [st.lane EXCEPT ![i + 1] = from_color(Head(colors))])),
            i, Tail(colors))

RECURSIVE scrub_cells(_, _, _)
scrub_cells(cs, st, i) ==
    IF i = Len(st.lane) \/ st.status # "ok" THEN st
    ELSE IF is_known(st.lane[i + 1]) THEN scrub_cells(cs, st, i + 1)
    ELSE scrub_cells(cs, scrub_colors(cs, st, i, can_be_iter(st.lane[i + 1])),
                     i + 1)

scrub_line(cs, l) == scrub_cells(cs, Start(l), 0)

----------------------------------------------------------------------------
(* Heuristics *)

I32_MIN == -2147483647 - 1
I32_MAX == 2147483647

\* Rust's integer division truncates toward zero
TruncDiv(a, b) == IF a >= 0 THEN a \div b ELSE -((-a) \div b)

RECURSIVE SumLen(_)
SumLen(cs) == IF cs = <<>> THEN 0 ELSE len(Head(cs)) + SumLen(Tail(cs))

\* The longest run of cells not known to be background, scanning from cell i
RECURSIVE longest_span(_, _, _, _)
longest_span(l, i, cur, longest) ==
    IF i > Len(l) THEN longest
    ELSE IF ~is_known_to_be(l[i], BACKGROUND)
         THEN longest_span(l, i + 1, cur + 1,
                           IF cur + 1 > longest THEN cur + 1 ELSE longest)
         ELSE longest_span(l, i + 1, 0, longest)

\* Fault injection for SkimScore: the ends of the lane earn nothing
skim_heuristic_no_bonus(cs, l) ==
    IF cs = <<>> THEN 1000
    ELSE (SumLen(cs) + Max({len(cs[k]) : k \in 1..Len(cs)}))
         - longest_span(l, 1, 0, 0)

skim_heuristic(cs, l) ==
    IF cs = <<>> THEN 1000
    ELSE
      LET longest_foregroundable_span == longest_span(l, 1, 0, 0)
          total_clue_length == SumLen(cs)
          longest_clue == Max({len(cs[k]) : k \in 1..Len(cs)})
          edge_bonus ==
              (IF ~is_known_to_be(l[1], BACKGROUND) THEN 2 ELSE 0)
              + (IF ~is_known_to_be(l[Len(l)], BACKGROUND) THEN 2 ELSE 0)
      IN (total_clue_length + longest_clue) - longest_foregroundable_span
         + edge_bonus

scrub_heuristic(cs, l) ==
    LET foreground_cells == SumLen(cs)
        space_taken ==
            SumLen(cs)
            + Cardinality({k \in 2..Len(cs) :
                              must_be_separated_from(cs[k - 1], cs[k])})
        longest_clue == IF cs = <<>> THEN 0
                        ELSE Max({len(cs[k]) : k \in 1..Len(cs)})
        known_background_cells ==
            Cardinality({i \in 1..Len(l) : is_known_to_be(l[i], BACKGROUND)})
        unknown_cells == Cardinality({i \in 1..Len(l) : ~is_known(l[i])})
        known_foreground_cells ==
            Len(l) - unknown_cells - known_background_cells
        density == space_taken - known_foreground_cells + longest_clue - Len(cs)
        known_foreground_chunks ==
            Cardinality({i \in 1..Len(l) :
                            /\ ~can_be(l[i], BACKGROUND)
                            /\ (i = 1 \/ can_be(l[i - 1], BACKGROUND))})
        unknown_background_cells ==
            (Len(l) - foreground_cells) - known_background_cells
        excess_chunks == IF known_foreground_cells > 0
                         THEN known_foreground_chunks - Len(cs)
                         ELSE -2
        bonus == TruncDiv(unknown_background_cells * (excess_chunks + 2), 2)
    IN density + (IF bonus > 0 THEN bonus ELSE 0)

----------------------------------------------------------------------------
(* Grid solver.  A Grid is a sequence of rows, cell [[y, x]] of the code   *)
(* being g[y + 1][x + 1].  A Solution's grid is a sequence of columns,     *)
(* grid[x][y] of the code being s[x + 1][y + 1].                           *)

\* SolveMode::all(), in the order Skim < Scrub
Modes == <<"skim", "scrub">>
ModeSet == {"skim", "scrub"}
first_mode == "skim"
ModeRank(m) == IF m = "skim" THEN 0 ELSE 1
MinMode(a, b) == IF ModeRank(a) <= ModeRank(b) THEN a ELSE b

exhaust_line(cs, l) == scrub_line(cs, l)

initial_allowed_failures == [skim |-> 10, scrub |-> 0]

saturating_sub(a, b) ==
    IF b >= 0 /\ a < I32_MIN + b THEN I32_MIN
    ELSE IF b < 0 /\ a > I32_MAX + b THEN I32_MAX
    ELSE a - b

\* PerModeLaneState::new
NewPerMode == [processed |-> FALSE, score |-> 0, processed_score |-> 0]

Range(f) == {f[k] : k \in DOMAIN f}

get_grid_lane(ls, g) ==
    IF ls.row THEN g[ls.index + 1]
    ELSE [y \in 1..Len(g) |-> g[y][ls.index + 1]]

\* The grid after the mutable view of the lane has been written through
put_grid_lane(ls, g, l) ==
    IF ls.row THEN [g EXCEPT ![ls.index + 1] = l]
    ELSE [y \in 1..Len(g) |-> [g[y] EXCEPT ![ls.index + 1] = l[y]]]

rescore(ls, g, was_processed) ==
    LET l == get_grid_lane(ls, g) IN
    IF \A i \in 1..Len(l) : is_known(l[i])
    THEN [ls EXCEPT !.per_mode =
            [m \in ModeSet |-> [ls.per_mode[m] EXCEPT !.score = I32_MIN]]]
    ELSE [ls EXCEPT !.per_mode =
            [m \in ModeSet |->
               [processed |-> ls.per_mode[m].processed,
                processed_score |-> IF was_processed THEN ls.per_mode[m].score
                                    ELSE ls.per_mode[m].processed_score,
                score |-> IF m = "scrub" THEN scrub_heuristic(ls.clues, l)
                          ELSE skim_heuristic(ls.clues, l)]]]

\* LaneState::new
NewLaneState(cs, row, idx, g) ==
    rescore([clues |-> cs, row |-> row, index |-> idx,
             per_mode |-> [m \in ModeSet |-> NewPerMode]], g, FALSE)

effective_score(ls, mode) ==
    saturating_sub(ls.per_mode[mode].score, ls.per_mode[mode].processed_score)

\* Fault injection for LaneSelection: a later lane of the same score replaces
\* the earlier one
find_best_lane_last(lanes, mode) ==
    LET cand == {k \in 1..Len(lanes) :
                    /\ ~lanes[k].per_mode[mode].processed
                    /\ effective_score(lanes[k], mode) > I32_MIN}
    IN IF cand = {} THEN 0
       ELSE Max({k \in cand :
                   \A j \in cand : effective_score(lanes[j], mode)
                                     <= effective_score(lanes[k], mode)})

\* The position in lanes (from 1) of the lane find_best_lane returns; 0 for None
find_best_lane(lanes, mode) ==
    LET cand == {k \in 1..Len(lanes) :
                    /\ ~lanes[k].per_mode[mode].processed
                    /\ effective_score(lanes[k], mode) > I32_MIN}
    IN IF cand = {} THEN 0
       ELSE Min({k \in cand :
                   \A j \in cand : effective_score(lanes[j], mode)
                                     <= effective_score(lanes[k], mode)})

grid_to_solved_mask(g) ==
    [x \in 1..(IF g = <<>> THEN 0 ELSE Len(g[1])) |->
        [y \in 1..Len(g) |-> is_known(g[y][x])]]

grid_to_solution(g) ==
    [x \in 1..(IF g = <<>> THEN 0 ELSE Len(g[1])) |->
        [y \in 1..Len(g) |->
            IF known_or(g[y][x]) # None THEN known_or(g[y][x]) ELSE BACKGROUND]]

\* The cells of the lane at the indices of affected, in that order
cells_at(l, affected) == [k \in 1..Len(affected) |-> l[affected[k] + 1]]

\* Replaying a cache entry: lane[idx] = new_cell for the zipped pairs, in order
RECURSIVE replay(_, _, _, _)
replay(l, affected, new_cells, k) ==
    IF k > Len(affected) \/ k > Len(new_cells) THEN l
    ELSE replay([l EXCEPT ![affected[k] + 1] = new_cells[k]], affected,
                new_cells, k + 1)

NoCache == [some |-> FALSE, map |-> <<>>]
EmptyCache == [some |-> TRUE, map |-> <<>>]

\* Fault injection for CacheFaithful: the key leaves the clue vector out
cache_key_lane_only(cs, l) == <<<<>>, l>>

\* The key of a cache entry: the clue vector and the raw masks of the lane
cache_key(cs, l) == <<cs, l>>

\* A hit: the recorded cells are written back at the recorded indices
cache_hit(l, cache, e) ==
    [st |-> [lane |-> replay(l, e.report, e.cells, 1), affected |-> e.report,
             status |-> "ok"],
     cache |-> cache]

\* A miss: the routine ran with outcome st; the `?` keeps an Err out of the map
cache_miss(cache, key, st) ==
    IF st.status # "ok" THEN [st |-> st, cache |-> cache]
    ELSE [st |-> st,
          cache |-> [some |-> TRUE,
                     map |-> (key :> [report |-> st.affected,
                                      cells |-> cells_at(st.lane, st.affected)])
                             @@ cache.map]]

\* [st, cache]: the outcome of the routine on the lane, and the cache after it
op_or_cache(f(_, _), cs, l, cache) ==
    IF cache.some
    THEN IF cache_key(cs, l) \in DOMAIN cache.map
         THEN cache_hit(l, cache, cache.map[cache_key(cs, l)])
         ELSE cache_miss(cache, cache_key(cs, l), f(cs, l))
    ELSE [st |-> f(cs, l), cache |-> cache]

\* Fault injection for ColorFilter: the report and the lane pass unfiltered
filter_report_keep_all(affected, orig_lane, new_lane, color, k, new_affected) ==
    [affected |-> affected, lane |-> new_lane]

\* [affected, lane]
RECURSIVE filter_report_by_color(_, _, _, _, _, _)
filter_report_by_color(affected, orig_lane, new_lane, color, k, new_affected) ==
    IF k > Len(affected) THEN [affected |-> new_affected, lane |-> new_lane]
    ELSE LET idx == affected[k] IN
         IF is_known_to_be(new_lane[idx + 1], color)
         THEN filter_report_by_color(affected, orig_lane, new_lane, color, k + 1,
                                     Append(new_affected, idx))
         ELSE filter_report_by_color(affected, orig_lane,
                                     [new_lane EXCEPT ![idx + 1] = orig_lane[idx + 1]],
                                     color, k + 1, new_affected)

KnownCount(l) == Cardinality({i \in 1..Len(l) : is_known(l[i])})

\* The mode the loop chooses at the top of an iteration
current_mode_of(opts, budget) ==
    IF budget["skim"] > 0 THEN MinMode(opts.max_effort, "skim")
    ELSE IF budget["scrub"] > 0 THEN MinMode(opts.max_effort, "scrub")
    ELSE opts.max_effort

MakeReport(sv) ==
    [solve_counts |-> sv.solve_counts,
     cells_left |-> sv.cells_left,
     solution |-> grid_to_solution(sv.grid),
     solved_mask |-> grid_to_solved_mask(sv.grid)]

NoReport == [solve_counts |-> [skim |-> 0, scrub |-> 0], cells_left |-> 0,
             solution |-> <<>>, solved_mask |-> <<>>]

\* The shape of a grid (an Array2 of rows by columns); the model keeps a grid
\* as the sequence of its rows, so a grid without rows has no columns
nrows(g) == Len(g)
ncols(g) == IF g = <<>> THEN 0 ELSE Len(g[1])

\* Every grid.row(idx) and grid.column(idx) that LaneState::new takes is
\* inside the grid; ndarray panics on one that is not
lanes_fit(p, g) == Len(p.rows) <= nrows(g) /\ Len(p.cols) <= ncols(g)

\* The state of solve_grid on entering the loop, or after the panic of a
\* row or column view outside the grid
solve_grid_entry(p, cache, g) ==
    [grid |-> g,
     solve_lanes |->
        IF ~lanes_fit(p, g) THEN <<>>
        ELSE [k \in 1..(Len(p.rows) + Len(p.cols)) |->
                IF k <= Len(p.rows)
                THEN NewLaneState(p.rows[k], TRUE, k - 1, g)
                ELSE NewLaneState(p.cols[k - Len(p.rows)], FALSE,
                                  k - Len(p.rows) - 1, g)],
     cells_left |-> Len(p.rows) * Len(p.cols),
     solve_counts |-> [skim |-> 0, scrub |-> 0],
     allowed_failures |-> initial_allowed_failures,
     line_cache |-> cache,
     pc |-> IF lanes_fit(p, g) THEN "loop" ELSE "panic",
     report |-> NoReport]

\* find_best_lane found nothing and the mode is the last one: return the Report
give_up(sv) == [sv EXCEPT !.pc = "done", !.report = MakeReport(sv)]

\* Fault injection for Terminates: the budget of the mode is left as it is
escalate_keep_budget(opts, sv) == sv

\* find_best_lane found nothing below max_effort: try the next mode
escalate(opts, sv) ==
    [sv EXCEPT !.allowed_failures[current_mode_of(opts, sv.allowed_failures)] = 0]

\* Fault injection for ContradictionIsFatal: the Err is dropped and the loop
\* goes on
line_failed_retry(sv, best_clue_lane, r, counts) ==
    [sv EXCEPT !.grid = put_grid_lane(best_clue_lane, sv.grid, r.st.lane),
               !.solve_counts = counts,
               !.line_cache = r.cache]

\* The line solver returned Err: the `?` returns it from solve_grid at once,
\* with the lane as the routine left it
line_failed(sv, best_clue_lane, r, counts) ==
    [sv EXCEPT !.pc = IF r.st.status = "panic" THEN "panic" ELSE "err",
               !.grid = put_grid_lane(best_clue_lane, sv.grid, r.st.lane),
               !.solve_counts = counts,
               !.line_cache = r.cache]

\* solve_counts[current_mode] += 1
counted(sv, current_mode) == [sv.solve_counts EXCEPT ![current_mode] = @ + 1]

\* The match on current_mode: [st, cache]
run_line(best_clue_lane, orig_version_of_line, cache, current_mode) ==
    IF current_mode = "scrub"
    THEN op_or_cache(exhaust_line, best_clue_lane.clues, orig_version_of_line,
                     cache)
    ELSE [st |-> skim_line(best_clue_lane.clues, orig_version_of_line),
          cache |-> cache]

\* The optional color filter on the outcome st: [affected, lane]
filtered(opts, orig_version_of_line, st) ==
    IF opts.only_solve_color # None
    THEN filter_report_by_color(st.affected, orig_version_of_line, st.lane,
                                opts.only_solve_color, 1, <<>>)
    ELSE [affected |-> st.affected, lane |-> st.lane]

\* Fault injection for ModeAndBudget: an empty report costs nothing
budget_step_free(opts, allowed, current_mode, affected) ==
    IF current_mode # opts.max_effort /\ affected # <<>>
    THEN [allowed EXCEPT ![current_mode] = IF @ + 1 < 10 THEN @ + 1 ELSE 10]
    ELSE allowed

\* The budget of a mode below max_effort: one less after an empty report, one
\* more (10 at most) after progress
budget_step(opts, allowed, current_mode, affected) ==
    IF current_mode # opts.max_effort
    THEN IF affected = <<>>
         THEN [allowed EXCEPT ![current_mode] = @ - 1]
         ELSE [allowed EXCEPT ![current_mode] = IF @ + 1 < 10 THEN @ + 1 ELSE 10]
    ELSE allowed

\* The budgets after the iteration: reset first when a later mode made progress
budget_after(opts, allowed, current_mode, affected) ==
    budget_step(opts,
                IF current_mode # first_mode /\ affected # <<>>
                THEN initial_allowed_failures ELSE allowed,
                current_mode, affected)

clear_processed(ls) ==
    [ls EXCEPT !.per_mode =
        [m \in ModeSet |-> [ls.per_mode[m] EXCEPT !.processed = FALSE]]]

\* Fault injection for PropagationFrame: every intersecting lane is rescored
\* and marked unprocessed
reexamine_every_crossing(lanes, g, was_row, affected) ==
    [j \in 1..Len(lanes) |->
        IF lanes[j].row # was_row
        THEN clear_processed(rescore(lanes[j], g, FALSE))
        ELSE lanes[j]]

\* The affected intersecting lanes are rescored and marked unprocessed
reexamine(lanes, g, was_row, affected) ==
    [j \in 1..Len(lanes) |->
        IF lanes[j].row # was_row /\ lanes[j].index \in Range(affected)
        THEN clear_processed(rescore(lanes[j], g, FALSE))
        ELSE lanes[j]]

\* From the test of cells_left on; sv1 is the state after the lane was processed
step_end(opts, sv1, was_row, current_mode, affected) ==
    IF sv1.cells_left = 0
    THEN [sv1 EXCEPT !.pc = "done", !.report = MakeReport(sv1)]
    ELSE [sv1 EXCEPT
            !.allowed_failures =
                budget_after(opts, sv1.allowed_failures, current_mode, affected),
            !.solve_lanes = reexamine(sv1.solve_lanes, sv1.grid, was_row, affected)]

\* The lane is marked processed and rescored against the grid it was written to
processed_state(sv, k, current_mode, grid1, cells_left1, cache) ==
    [sv EXCEPT !.grid = grid1,
               !.solve_lanes[k] =
                   rescore([@ EXCEPT !.per_mode[current_mode].processed = TRUE],
                           grid1, TRUE),
               !.cells_left = cells_left1,
               !.solve_counts = counted(sv, current_mode),
               !.line_cache = cache]

\* The line solver returned Ok; rep is its report and lane after the filter
line_done(opts, sv, k, current_mode, orig_version_of_line, cache, rep) ==
    step_end(opts,
        processed_state(sv, k, current_mode,
            put_grid_lane(sv.solve_lanes[k], sv.grid, rep.lane),
            sv.cells_left
                - (KnownCount(rep.lane) - KnownCount(orig_version_of_line)),
            cache),
        sv.solve_lanes[k].row, current_mode, rep.affected)

\* The line solver returned r = [st, cache]
line_returned(opts, sv, k, current_mode, orig_version_of_line, r) ==
    IF r.st.status # "ok"
    THEN line_failed(sv, sv.solve_lanes[k], r, counted(sv, current_mode))
    ELSE line_done(opts, sv, k, current_mode, orig_version_of_line, r.cache,
                   filtered(opts, orig_version_of_line, r.st))

\* One iteration that invokes the line solver on lane k in current_mode
invoke(opts, sv, k, current_mode) ==
    line_returned(opts, sv, k, current_mode,
        get_grid_lane(sv.solve_lanes[k], sv.grid),
        run_line(sv.solve_lanes[k], get_grid_lane(sv.solve_lanes[k], sv.grid),
                 sv.line_cache, current_mode))

\* One iteration of the loop of solve_grid, the mode and the lane chosen
iterate(opts, sv, current_mode, k) ==
    IF k = 0
    THEN IF ModeRank(current_mode) >= ModeRank(opts.max_effort)
         THEN give_up(sv) ELSE escalate(opts, sv)
    ELSE invoke(opts, sv, k, current_mode)

\* One iteration of the loop of solve_grid
solve_iteration(opts, sv) ==
    iterate(opts, sv, current_mode_of(opts, sv.allowed_failures),
            find_best_lane(sv.solve_lanes,
                           current_mode_of(opts, sv.allowed_failures)))

\* The loop of solve_grid run to its return
RECURSIVE solve_loop(_, _)
solve_loop(opts, sv) ==
    IF sv.pc # "loop" THEN sv ELSE solve_loop(opts, solve_iteration(opts, sv))

\* Cell::new(puzzle)
new_cell(p) == p.palette

\* The grid solve() builds: rows.len() by cols.len() cells, all full
full_grid(p) == [y \in 1..Len(p.rows) |-> [x \in 1..Len(p.cols) |-> new_cell(p)]]

----------------------------------------------------------------------------
(* The line solver under test: a clue vector and a lane are drawn, then    *)
(* skim_line or scrub_line runs on the lane, and possibly skim_line again  *)
(* on what the first call left.                                            *)

\* The grid solver's variables when no solve is under way
NoPuzzle == [palette |-> {}, rows |-> <<>>, cols |-> <<>>]
NoOptions == [max_effort |-> "scrub", only_solve_color |-> None]

\* disambig_candidates not called
ScorerIdle ==
    /\ scorer_pc = "idle"
    /\ solve_cache = NoCache
    /\ orig_cells_left = 0
    /\ res = <<>>
    /\ next_cell = 0
    /\ keys = <<>>
    /\ sent = <<>>
    /\ fired = FALSE
    /\ late_cells = 0
    /\ progress_r = TRUE

\* No editor open
EditorIdle ==
    /\ document = <<>>
    /\ undo_stack = <<>>
    /\ redo_stack = <<>>
    /\ drag_start_color = BACKGROUND
    /\ line_tool_state = <<>>
    /\ current_tool = "Pencil"
    /\ pointer_down = FALSE
    /\ edit_phase = "none"
    /\ stroke_before = <<>>
    /\ edit_before = <<>>
    /\ edit_after = <<>>

\* analyze_lines not called
NoTechniques == [rows |-> <<>>, cols |-> <<>>, status |-> "none"]

\* No grid seeded from a Solution, no line analysed
AnalyzerIdle ==
    /\ solution = <<>>
    /\ seeded_by = "none"
    /\ partial = <<>>
    /\ techniques = NoTechniques
    /\ heuristic = None

\* The components around the solver at rest
OthersIdle == ScorerIdle /\ EditorIdle /\ AnalyzerIdle

GridIdle ==
    /\ picture = <<>>
    /\ puzzle = NoPuzzle
    /\ options = NoOptions
    /\ seed = <<>>
    /\ grid = <<>>
    /\ solve_lanes = <<>>
    /\ cells_left = 0
    /\ solve_counts = [skim |-> 0, scrub |-> 0]
    /\ allowed_failures = initial_allowed_failures
    /\ line_cache = NoCache
    /\ pc = "idle"
    /\ report = NoReport
    /\ solves = 0
    /\ raised = 0

NoOut == [lane |-> <<>>, affected |-> <<>>, status |-> "none"]

\* The lanes of 1..n cells, every cell drawn from cells
LanesOf(cells, n) == UNION {[1..k -> cells] : k \in 1..n}

\* The clue vectors over cl of total length at most n
RECURSIVE ClueVecs(_, _)
ClueVecs(cl, n) ==
    {<<>>} \cup
    UNION {{<<c>> \o rest : rest \in ClueVecs(cl, n - len(c))} :
              c \in {d \in cl : len(d) <= n}}

\* Black-and-white Nono lines of at most MaxLen cells, any masks
BWCells == (SUBSET {0, 1}) \ {{}}
BWClues == {Nono(1, count) : count \in 1..MaxLen}
BWLines == ClueVecs(BWClues, MaxLen) \X LanesOf(BWCells, MaxLen)

\* Nono lines of two foreground colors, of at most MaxColorLen cells, any masks
Cells == (SUBSET Palette) \ {{}}
NonoClues == {Nono(color, count) : color \in Palette \ {BACKGROUND},
                                   count \in 1..MaxColorLen}
ColorLines == ClueVecs(NonoClues, MaxColorLen) \X LanesOf(Cells, MaxColorLen)

\* Triano lines of at most MaxColorLen cells: body color 1, front cap 2, back
\* cap 3; every cell is known or is the full palette
TrianoPalette == {0, 1, 2, 3}
TrianoCells == {TrianoPalette} \cup {from_color(c) : c \in TrianoPalette}
TrianoClues == {Triano(front_cap, body_len, 1, back_cap) :
                   front_cap \in {None, 2}, body_len \in 1..MaxColorLen,
                   back_cap \in {None, 3}}
TrianoLines ==
    ClueVecs(TrianoClues, MaxColorLen) \X LanesOf(TrianoCells, MaxColorLen)

\* Three black clues of one cell on a lane of LongLen cells, each cell unknown
\* or known black
LongLines ==
    {<<Nono(1, 1), Nono(1, 1), Nono(1, 1)>>} \X [1..LongLen -> {{0, 1}, {1}}]

LineInit ==
    /\ \E line \in BWLines \cup ColorLines \cup TrianoLines \cup LongLines :
          /\ clues = line[1]
          /\ lane = line[2]
    /\ op = "none"
    /\ out = NoOut
    /\ out2 = NoOut
    /\ GridIdle
    /\ OthersIdle

Skim ==
    /\ op = "none"
    /\ op' = "skim"
    /\ out' = skim_line(clues, lane)
    /\ UNCHANGED <<clues, lane, out2, gvars, xvars>>

Scrub ==
    /\ op = "none"
    /\ op' = "scrub"
    /\ out' = scrub_line(clues, lane)
    /\ UNCHANGED <<clues, lane, out2, gvars, xvars>>

SkimAgain ==
    /\ op = "skim"
    /\ out.status = "ok"
    /\ op' = "skim_skim"
    /\ out2' = skim_line(clues, out.lane)
    /\ UNCHANGED <<clues, lane, out, gvars, xvars>>

\* scrub_line on what a successful skim_line left
ScrubAfterSkim ==
    /\ op = "skim"
    /\ out.status = "ok"
    /\ op' = "skim_scrub"
    /\ out2' = scrub_line(clues, out.lane)
    /\ UNCHANGED <<clues, lane, out, gvars, xvars>>

LineNext == Skim \/ Scrub \/ SkimAgain \/ ScrubAfterSkim

SpecLine == LineInit /\ [][LineNext]_vars

----------------------------------------------------------------------------
(* Arrangements: the clues placed in order inside a lane of n cells, two   *)
(* consecutive clues one cell apart at least when they must be separated.  *)
(* A placement is the sequence of the start indices of the clues.          *)

RECURSIVE Placements(_, _, _, _)
Placements(cs, k, pos, n) ==
    IF k > Len(cs) THEN {<<>>}
    ELSE UNION {
           {<<s>> \o rest :
              rest \in Placements(cs, k + 1,
                         s + len(cs[k])
                           + (IF k < Len(cs) /\ must_be_separated_from(cs[k], cs[k + 1])
                              THEN 1 ELSE 0),
                         n)} :
           s \in pos..(n - len(cs[k]))}

\* The color the placement gives cell i (0-based)
ColorOf(cs, starts, i) ==
    IF \E k \in 1..Len(cs) : starts[k] <= i /\ i < starts[k] + len(cs[k])
    THEN LET k == CHOOSE k \in 1..Len(cs) :
                     starts[k] <= i /\ i < starts[k] + len(cs[k])
         IN color_at(cs[k], i - starts[k])
    ELSE BACKGROUND

Consistent(cs, starts, l) ==
    \A i \in 0..(Len(l) - 1) : ColorOf(cs, starts, i) \in l[i + 1]

Feasible(cs, l) == {p \in Placements(cs, 1, 0, Len(l)) : Consistent(cs, p, l)}

\* C1: every arrangement of the clues that is consistent with the lane is
\* consistent with the lane skim_line and scrub_line leave, and neither fails
\* while such an arrangement exists.
LineSolverSound ==
    op \in {"skim", "scrub"} =>
        \A p \in Feasible(clues, lane) :
            out.status = "ok" /\ Consistent(clues, p, out.lane)

LineSolverSoundWitness ==
    /\ op = "scrub"
    /\ out.status = "ok"
    /\ out.lane # lane
    /\ Len(clues) = 2
    /\ Cardinality(Feasible(clues, lane)) >= 2

\* C5: after a successful Skim or Scrub every Cell is a subset of the Cell
\* before the call.
DeductionMonotone ==
    /\ (op \in {"skim", "scrub"} /\ out.status = "ok") =>
          \A i \in 1..Len(lane) : out.lane[i] \subseteq lane[i]
    /\ (op = "skim_skim" /\ out2.status = "ok") =>
          \A i \in 1..Len(lane) : out2.lane[i] \subseteq out.lane[i]

DeductionMonotoneWitness ==
    /\ op = "skim"
    /\ out.status = "ok"
    /\ \E i \in 1..Len(lane) : out.lane[i] # lane[i] /\ ~is_known(out.lane[i])

\* C10: a second Skim on the result of a successful Skim changes no cell and
\* reports an empty affected set.
SkimIdempotent ==
    op = "skim_skim" =>
        /\ out2.status = "ok"
        /\ out2.lane = out.lane
        /\ out2.affected = <<>>

\* C11, as claimed: Scrub on what a successful Skim left yields the lane that
\* Scrub alone yields on the original lane, so the cells of Scrub alone are
\* subsets of the cells of Skim.
SkimScrubConfluent ==
    op = "skim_scrub" =>
        /\ out2.status = scrub_line(clues, lane).status
        /\ out2.status = "ok" => out2.lane = scrub_line(clues, lane).lane

\* The reference lane of scrub_test and skim_test: clues [black 1, black 2] on
\* four unknown cells
ReferenceLine ==
    /\ clues = <<Nono(1, 1), Nono(1, 2)>>
    /\ lane = <<{0, 1}, {0, 1}, {0, 1}, {0, 1}>>

Solved12 == <<{1}, {0}, {1}, {1}>>

\* C12, as claimed: on the reference lane Scrub yields black, background,
\* black, black, and Skim leaves cell 0 not known.
ScrubStrengthensSkim ==
    ReferenceLine =>
        /\ op = "scrub" => (out.status = "ok" /\ out.lane = Solved12)
        /\ op = "skim" => (out.status = "ok" /\ ~is_known(out.lane[1]))

\* C12, amended: on the reference lane Scrub yields black, background, black,
\* black, and so does Skim alone: Skim leaves no cell of it unknown, cell 0
\* included.
ScrubAndSkimSolveReference ==
    (ReferenceLine /\ op \in {"scrub", "skim"}) =>
        /\ out.status = "ok"
        /\ out.lane = Solved12
        /\ op = "skim" => is_known_to_be(out.lane[1], 1)

ScrubAndSkimSolveReferenceWitness ==
    /\ ReferenceLine
    /\ op = "skim"
    /\ out.lane = Solved12

\* The indices (from 0) at which the lanes before and after differ
Changed(before, after) == {i \in 0..(Len(before) - 1) : after[i + 1] # before[i + 1]}

\* The set of the indices a ScrubReport lists
Affected(r) == {r.affected[j] : j \in 1..Len(r.affected)}

\* C13: the affected_cells of a successful Skim or Scrub call are exactly the
\* indices whose Cell differs between the lane before and after the call, on
\* the first call and on a call that follows a Skim.
AffectedExact ==
    /\ (op \in {"skim", "scrub"} /\ out.status = "ok") =>
          Affected(out) = Changed(lane, out.lane)
    /\ (op \in {"skim_skim", "skim_scrub"} /\ out2.status = "ok") =>
          Affected(out2) = Changed(out.lane, out2.lane)

AffectedExactWitness ==
    /\ op = "scrub"
    /\ out.status = "ok"
    /\ Len(lane) >= 3
    /\ Cardinality(Affected(out)) >= 2
    /\ \E i \in 1..Len(lane) : out.lane[i] = lane[i] /\ ~is_known(lane[i])
    /\ \E i \in 1..Len(lane) : out.lane[i] # lane[i] /\ ~is_known(out.lane[i])

----------------------------------------------------------------------------
(* solution_to_puzzle *)

\* Fault injection for RoundTripOnSolved: the loop stops at the last cell, so
\* a run that reaches the end of the line is never pushed
RECURSIVE line_clues_no_flush(_, _, _, _, _)
line_clues_no_flush(colors, i, prev_color, run, acc) ==
    IF i > Len(colors) THEN acc
    ELSE LET color == colors[i] IN
         IF prev_color = color
         THEN line_clues_no_flush(colors, i + 1, prev_color, run + 1, acc)
         ELSE line_clues_no_flush(colors, i + 1, color, 1,
                         IF prev_color = None \/ prev_color = BACKGROUND THEN acc
                         ELSE Append(acc, Nono(prev_color, run)))

\* The loop over x in 0..width + 1 of one line of colors, at position i (from
\* 1), with prev_color, run and the clues pushed so far
RECURSIVE line_clues(_, _, _, _, _)
line_clues(colors, i, prev_color, run, acc) ==
    IF i > Len(colors) + 1 THEN acc
    ELSE LET color == IF i <= Len(colors) THEN colors[i] ELSE None IN
         IF prev_color = color
         THEN line_clues(colors, i + 1, prev_color, run + 1, acc)
         ELSE line_clues(colors, i + 1, color, 1,
                         IF prev_color = None \/ prev_color = BACKGROUND THEN acc
                         ELSE Append(acc, Nono(prev_color, run)))

x_size(sol) == Len(sol)
y_size(sol) == Len(sol[1])

solution_to_puzzle(sol, palette) ==
    [palette |-> palette,
     rows |-> [y \in 1..y_size(sol) |->
                 line_clues([x \in 1..x_size(sol) |-> sol[x][y]], 1, None, 1, <<>>)],
     cols |-> [x \in 1..x_size(sol) |-> line_clues(sol[x], 1, None, 1, <<>>)]]

----------------------------------------------------------------------------
(* The grid solver as a state machine: a caller picks a puzzle, options and *)
(* possibly a line cache, enters solve (a full grid) or partial_solve (a    *)
(* seeded grid, no cache), and solve_grid then runs one loop iteration per  *)
(* step.                                                                    *)

MaxCells == 4
MaxSolves == 2
MaxInvocations == 60

GridPalette == {0, 1}

Dims == {d \in (1..MaxCells) \X (1..MaxCells) : d[1] * d[2] <= MaxCells}

\* The complete Solutions of d[1] columns by d[2] rows
PicturesOf(d) == [1..d[1] -> [1..d[2] -> GridPalette]]

\* Two columns of four rows whose puzzle (rows 1 1 1 1, columns 2 and 1 1) has
\* this one solution, though no row or column alone determines any cell
Crossed == <<<<0, 1, 1, 0>>, <<1, 0, 0, 1>>>>

Pictures == UNION {PicturesOf(d) : d \in Dims} \cup {Crossed}

\* sol with cell (x, y) (from 1) set to color
with_cell(sol, x, y, color) == [sol EXCEPT ![x][y] = color]

\* sol itself and the Solutions that differ from it in one cell
Neighbours(sol) ==
    {sol} \cup {with_cell(sol, x, y, c) :
                  x \in 1..x_size(sol), y \in 1..y_size(sol), c \in GridPalette}

AllOptions == [max_effort : ModeSet, only_solve_color : {None} \cup GridPalette]

SV == [grid |-> grid, solve_lanes |-> solve_lanes, cells_left |-> cells_left,
       solve_counts |-> solve_counts, allowed_failures |-> allowed_failures,
       line_cache |-> line_cache, pc |-> pc, report |-> report]

SetSV(r) ==
    /\ grid' = r.grid
    /\ solve_lanes' = r.solve_lanes
    /\ cells_left' = r.cells_left
    /\ solve_counts' = r.solve_counts
    /\ allowed_failures' = r.allowed_failures
    /\ line_cache' = r.line_cache
    /\ pc' = r.pc
    /\ report' = r.report

LineIdle ==
    /\ clues = <<>>
    /\ lane = <<>>
    /\ op = "none"
    /\ out = NoOut
    /\ out2 = NoOut

\* solve_grid not entered yet
SolverIdle ==
    /\ seed = <<>>
    /\ grid = <<>>
    /\ solve_lanes = <<>>
    /\ cells_left = 0
    /\ solve_counts = [skim |-> 0, scrub |-> 0]
    /\ allowed_failures = initial_allowed_failures
    /\ pc = "idle"
    /\ report = NoReport
    /\ solves = 0
    /\ raised = 0

\* A caller holding a puzzle: its rows are the row clues of a picture, its
\* columns the column clues of that picture or of one that differs in a cell.
Init ==
    /\ LineIdle
    /\ picture \in Pictures
    /\ \E other \in Neighbours(picture) :
          puzzle = [palette |-> GridPalette,
                    rows |-> solution_to_puzzle(picture, GridPalette).rows,
                    cols |-> solution_to_puzzle(other, GridPalette).cols]
    /\ options \in AllOptions
    /\ line_cache \in {NoCache, EmptyCache}
    /\ SolverIdle
    /\ OthersIdle

\* The caller's partial grids: one cell known (to any color of the palette),
\* every other cell full
Seeds(p) ==
    {[full_grid(p) EXCEPT ![y][x] = from_color(c)] :
        y \in 1..Len(p.rows), x \in 1..Len(p.cols), c \in p.palette}

\* grid_solve::solve
Solve ==
    /\ pc = "idle"
    /\ seed' = full_grid(puzzle)
    /\ SetSV(solve_grid_entry(puzzle, line_cache, full_grid(puzzle)))
    /\ solves' = solves + 1
    /\ raised' = 0
    /\ UNCHANGED <<lvars, xvars, picture, puzzle, options>>

\* PuzzleDynOps::partial_solve: solve_grid on the caller's grid, no cache
PartialSolve ==
    /\ pc = "idle"
    /\ ~line_cache.some
    /\ \E g \in Seeds(puzzle) :
          /\ seed' = g
          /\ SetSV(solve_grid_entry(puzzle, NoCache, g))
    /\ solves' = solves + 1
    /\ raised' = 0
    /\ UNCHANGED <<lvars, xvars, picture, puzzle, options>>

CurrentMode == current_mode_of(options, allowed_failures)
BestLane == find_best_lane(solve_lanes, CurrentMode)
Invocations == solve_counts["skim"] + solve_counts["scrub"]

\* The lane the loop is about to hand to the line solver
BestGridLane == get_grid_lane(solve_lanes[BestLane], grid)

GiveUp ==
    /\ pc = "loop"
    /\ BestLane = 0
    /\ ModeRank(CurrentMode) >= ModeRank(options.max_effort)
    /\ SetSV(give_up(SV))
    /\ UNCHANGED <<lvars, xvars, picture, puzzle, options, seed, solves, raised>>

Escalate ==
    /\ pc = "loop"
    /\ BestLane = 0
    /\ ModeRank(CurrentMode) < ModeRank(options.max_effort)
    /\ SetSV(escalate(options, SV))
    /\ UNCHANGED <<lvars, xvars, picture, puzzle, options, seed, solves, raised>>

\* raised counts the line-solver calls of the run that returned Err
InvokeSkim ==
    /\ pc = "loop"
    /\ BestLane # 0
    /\ CurrentMode = "skim"
    /\ Invocations < MaxInvocations
    /\ SetSV(invoke(options, SV, BestLane, "skim"))
    /\ raised' = raised
          + (IF skim_line(solve_lanes[BestLane].clues, BestGridLane).status = "err"
             THEN 1 ELSE 0)
    /\ UNCHANGED <<lvars, xvars, picture, puzzle, options, seed, solves>>

InvokeScrub ==
    /\ pc = "loop"
    /\ BestLane # 0
    /\ CurrentMode = "scrub"
    /\ Invocations < MaxInvocations
    /\ SetSV(invoke(options, SV, BestLane, "scrub"))
    /\ raised' = raised
          + (IF exhaust_line(solve_lanes[BestLane].clues, BestGridLane).status = "err"
             THEN 1 ELSE 0)
    /\ UNCHANGED <<lvars, xvars, picture, puzzle, options, seed, solves>>

\* The caller solves again with the cache the last solve left: the same puzzle,
\* or the puzzle of the picture itself
SolveAgain ==
    /\ pc = "done"
    /\ line_cache.some
    /\ solves < MaxSolves
    /\ \E p \in {puzzle, solution_to_puzzle(picture, GridPalette)} :
          /\ puzzle' = p
          /\ seed' = full_grid(p)
          /\ SetSV(solve_grid_entry(p, line_cache, full_grid(p)))
    /\ solves' = solves + 1
    /\ raised' = 0
    /\ UNCHANGED <<lvars, xvars, picture, options>>

Next ==
    \/ Solve
    \/ PartialSolve
    \/ GiveUp
    \/ Escalate
    \/ InvokeSkim
    \/ InvokeScrub
    \/ SolveAgain

Spec == Init /\ [][Next]_vars

\* Eight columns of three rows (rows 1 1 1, 1 1 1 and 2), the picture
\*     . . # . # . # .
\*     # . . . . # . #
\*     . . . # # . . .
Stalled == <<<<0, 1, 0>>, <<0, 0, 0>>, <<1, 0, 0>>, <<0, 0, 1>>,
             <<1, 0, 1>>, <<0, 1, 0>>, <<1, 0, 0>>, <<0, 1, 0>>>>

\* A caller holding the puzzle of Stalled and the default options
InitStalled ==
    /\ LineIdle
    /\ picture = Stalled
    /\ puzzle = solution_to_puzzle(Stalled, GridPalette)
    /\ options = NoOptions
    /\ line_cache \in {NoCache, EmptyCache}
    /\ SolverIdle
    /\ OthersIdle

SpecStalled == InitStalled /\ [][Next]_vars

----------------------------------------------------------------------------
(* Callers that hand solve a puzzle nobody validated, or partial_solve a    *)
(* grid of another shape than the puzzle.                                   *)

\* The pictures of at most two cells
SmallPictures == UNION {PicturesOf(d) : d \in {<<1, 1>>, <<1, 2>>, <<2, 1>>}}

\* A clue of a color outside GridPalette; clues that do not fit a lane of at
\* most two cells
StrayClue == Nono(2, 1)
LongClue == Nono(1, 3)

\* The clue vectors with one clue more, stray or long, in front or behind
Spoiled(cs) ==
    {<<c>> \o cs : c \in {StrayClue, LongClue}}
        \cup {cs \o <<c>> : c \in {StrayClue, LongClue}}

\* p with the clues of one row or one column spoiled
SpoiledPuzzles(p) ==
    UNION {{[p EXCEPT !.rows[k] = cs] : cs \in Spoiled(p.rows[k])} :
             k \in 1..Len(p.rows)}
        \cup UNION {{[p EXCEPT !.cols[k] = cs] : cs \in Spoiled(p.cols[k])} :
                       k \in 1..Len(p.cols)}

\* Puzzles of empty dimensions: no row and no column, one row of no column
EmptyPuzzles ==
    {[palette |-> GridPalette, rows |-> rows, cols |-> <<>>] :
        rows \in {<<>>, <<<<>>>>}}

clue_colors(c) == {color_at(c, i) : i \in 0..(len(c) - 1)}

\* The lane the puzzle gives the clues: a row is as long as there are columns
ClueFits(p, cs, n) ==
    /\ SumLen(cs) <= n
    /\ \A k \in 1..Len(cs) : clue_colors(cs[k]) \subseteq p.palette

WellFormed(p) ==
    /\ Len(p.rows) > 0
    /\ Len(p.cols) > 0
    /\ \A k \in 1..Len(p.rows) : ClueFits(p, p.rows[k], Len(p.cols))
    /\ \A k \in 1..Len(p.cols) : ClueFits(p, p.cols[k], Len(p.rows))

\* A caller holding the puzzle of a small picture, that puzzle spoiled, or a
\* puzzle of empty dimensions
InitUnchecked ==
    /\ LineIdle
    /\ picture \in SmallPictures
    /\ puzzle \in {solution_to_puzzle(picture, GridPalette)}
                    \cup SpoiledPuzzles(solution_to_puzzle(picture, GridPalette))
                    \cup EmptyPuzzles
    /\ options \in AllOptions
    /\ line_cache \in {NoCache, EmptyCache}
    /\ SolverIdle
    /\ OthersIdle

\* The grids of r rows by c columns with every cell full, or full but for the
\* first cell, known
GridsOf(p, r, c) ==
    {[y \in 1..r |-> [x \in 1..c |-> new_cell(p)]]}
        \cup {[y \in 1..r |-> [x \in 1..c |->
                  IF x = 1 /\ y = 1 THEN from_color(color) ELSE new_cell(p)]] :
                 color \in p.palette}

\* The seeds of one or two rows and columns whose shape is not the puzzle's
MismatchedSeeds(p) ==
    UNION {GridsOf(p, d[1], d[2]) :
             d \in ((1..2) \X (1..2)) \ {<<Len(p.rows), Len(p.cols)>>}}

SameShape(p, g) == nrows(g) = Len(p.rows) /\ ncols(g) = Len(p.cols)

\* partial_solve on a grid of another shape than the puzzle
PartialSolveMismatched ==
    /\ pc = "idle"
    /\ ~line_cache.some
    /\ \E g \in MismatchedSeeds(puzzle) :
          /\ seed' = g
          /\ SetSV(solve_grid_entry(puzzle, NoCache, g))
    /\ solves' = solves + 1
    /\ raised' = 0
    /\ UNCHANGED <<lvars, xvars, picture, puzzle, options>>

NextUnchecked == Next \/ PartialSolveMismatched

SpecUnchecked == InitUnchecked /\ [][NextUnchecked]_vars

----------------------------------------------------------------------------
(* The ambiguity scorer, disambig_candidates: a baseline solve of the       *)
(* picture, then for every cell one solve per other color of the palette.   *)
(* The scorer yields after every cell; the caller may send on the terminate *)
(* channel at any moment.  An f32 quotient of two small counts is kept as   *)
(* the fraction in lowest terms.                                            *)

MaxScored == 4

\* The Solutions the scorer is run on: three colors, at most MaxScored cells,
\* and one of two columns by six rows
ScoredDims == {d \in (1..MaxScored) \X (1..MaxScored) : d[1] * d[2] <= MaxScored}
Tall == <<<<1, 0, 0, 0, 0, 0>>, <<0, 1, 0, 0, 0, 0>>>>
ScoredPictures == UNION {[1..d[1] -> [1..d[2] -> Palette]] : d \in ScoredDims}
                     \cup {Tall}

\* The orders in which a HashMap of the palette may yield its keys
KeyOrders ==
    {o \in [1..Cardinality(Palette) -> Palette] :
        \A i, j \in 1..Cardinality(Palette) : o[i] = o[j] => i = j}

to_puzzle(s) == solution_to_puzzle(s, Palette)

\* grid_solve::solve
solve(p, cache, opts) == solve_loop(opts, solve_grid_entry(p, cache, full_grid(p)))

\* DynSolveCache::solve
cache_solve(cache, p) == solve(p, cache, NoOptions)

RECURSIVE GCD(_, _)
GCD(a, b) == IF b = 0 THEN a ELSE GCD(b, a % b)

\* a as f32 / b as f32
f32_div(a, b) == [num |-> a \div GCD(a, b), den |-> b \div GCD(a, b)]
f32_le(v, w) == v.num * w.den <= w.num * v.den

\* usize::MAX, above every count of cells: the largest integer of the model
USIZE_MAX == I32_MAX

\* vec![vec![(BACKGROUND, 0.0); y_size]; x_size]
default_entry == [color |-> BACKGROUND, score |-> f32_div(0, 1)]
default_res(s) == [x \in 1..x_size(s) |-> [y \in 1..y_size(s) |-> default_entry]]

\* Fault injection for BestAlternative: only the first candidate is kept
improves_on_none(new_cells_left, best_result) == best_result = USIZE_MAX

improves(new_cells_left, best_result) == new_cells_left < best_result

\* The body of the loop over the colors once the solve of the changed picture
\* has returned r; expect("") panics on an Err
candidate_solved(best, new_col, r) ==
    IF r.pc # "done" THEN [best EXCEPT !.ok = FALSE, !.cache = r.line_cache]
    ELSE [best_result |-> IF improves(r.report.cells_left, best.best_result)
                          THEN r.report.cells_left ELSE best.best_result,
          best_color |-> IF improves(r.report.cells_left, best.best_result)
                         THEN new_col ELSE best.best_color,
          cache |-> r.line_cache,
          ok |-> TRUE]

\* for new_col in s.palette.keys(), from position i of the order; x and y
\* count from 1
RECURSIVE candidates(_, _, _, _, _, _)
candidates(s, x, y, order, i, best) ==
    IF i > Len(order) \/ ~best.ok THEN best
    ELSE IF order[i] = s[x][y] THEN candidates(s, x, y, order, i + 1, best)
    ELSE candidates(s, x, y, order, i + 1,
            candidate_solved(best, order[i],
               cache_solve(best.cache, to_puzzle(with_cell(s, x, y, order[i])))))

score_cell(s, x, y, order, cache) ==
    candidates(s, x, y, order, 1,
               [best_result |-> USIZE_MAX, best_color |-> BACKGROUND,
                cache |-> cache, ok |-> TRUE])

\* The value sent for the cell at x, y (from 0), or nothing
progress_at(s, x, y) ==
    IF y % 5 = 0
    THEN <<f32_div(x * y_size(s) + y, x_size(s) * y_size(s))>>
    ELSE <<>>

cell_count(s) == x_size(s) * y_size(s)

\* Fault injection for CancelStops: the terminate channel is never read
after_cell_deaf(s, next, cancel) == IF next < cell_count(s) THEN "cell" ELSE "done"

\* After a cell: return on a message, go to the next cell, or leave the loops
after_cell(s, next, cancel) ==
    IF cancel THEN "cancelled"
    ELSE IF next < cell_count(s) THEN "cell" ELSE "done"

\* A caller holding a Solution, about to call disambig_candidates
InitScorer ==
    /\ LineIdle
    /\ picture \in ScoredPictures
    /\ puzzle = NoPuzzle
    /\ options = NoOptions
    /\ line_cache = NoCache
    /\ SolverIdle
    /\ EditorIdle
    /\ AnalyzerIdle
    /\ scorer_pc = "idle"
    /\ solve_cache = EmptyCache
    /\ orig_cells_left = 0
    /\ res = <<>>
    /\ next_cell = 0
    /\ keys \in KeyOrders
    /\ sent = <<>>
    /\ fired = FALSE
    /\ late_cells = 0
    /\ progress_r = TRUE

\* The baseline solve has returned r
baseline_solved(r) ==
    /\ solve_cache' = r.line_cache
    /\ orig_cells_left' = r.report.cells_left
    /\ res' = IF r.pc = "done" THEN default_res(picture) ELSE res
    /\ scorer_pc' = IF r.pc # "done" THEN "panic"
                    ELSE IF r.report.cells_left = 0 THEN "done" ELSE "cell"
    /\ sent' = IF r.pc = "done" /\ r.report.cells_left = 0
               THEN Append(sent, f32_div(0, 1)) ELSE sent

\* From the entry of disambig_candidates to the first cell
Baseline ==
    /\ scorer_pc = "idle"
    /\ baseline_solved(cache_solve(solve_cache, to_puzzle(picture)))
    /\ UNCHANGED <<avars, lvars, gvars, evars, progress_r, next_cell, keys, fired, late_cells>>

\* The cell at x, y (from 0) has been scored as best
cell_scored(x, y, best) ==
    /\ solve_cache' = best.cache
    /\ scorer_pc' = IF best.ok THEN "check" ELSE "panic"
    /\ sent' = IF best.ok THEN sent \o progress_at(picture, x, y) ELSE sent
    /\ res' = IF best.ok
              THEN [res EXCEPT ![x + 1][y + 1] =
                      [color |-> best.best_color,
                       score |-> f32_div(best.best_result, orig_cells_left)]]
              ELSE res

\* One pass of the loops over x and y, up to the read of the terminate
\* channel
ScoreCell ==
    /\ scorer_pc = "cell"
    /\ cell_scored(next_cell \div y_size(picture), next_cell % y_size(picture),
                   score_cell(picture, (next_cell \div y_size(picture)) + 1,
                              (next_cell % y_size(picture)) + 1, keys,
                              solve_cache))
    /\ next_cell' = next_cell + 1
    /\ late_cells' = late_cells + (IF fired THEN 1 ELSE 0)
    /\ UNCHANGED <<avars, lvars, gvars, evars, progress_r, orig_cells_left, keys, fired>>

\* terminate.try_recv(), then the next cell, or progress.send(1.0) and return
CheckTerminate ==
    /\ scorer_pc = "check"
    /\ scorer_pc' = after_cell(picture, next_cell, fired)
    /\ sent' = IF after_cell(picture, next_cell, fired) = "done"
               THEN Append(sent, f32_div(1, 1)) ELSE sent
    /\ UNCHANGED <<avars, lvars, gvars, evars, progress_r, solve_cache, orig_cells_left, res, next_cell,
                   keys, fired, late_cells>>

\* The caller sends on the terminate channel
Cancel ==
    /\ scorer_pc \in {"idle", "cell", "check"}
    /\ ~fired
    /\ fired' = TRUE
    /\ UNCHANGED <<avars, lvars, gvars, evars, progress_r, scorer_pc, solve_cache, orig_cells_left, res,
                   next_cell, keys, sent, late_cells>>

NextScorer == Baseline \/ ScoreCell \/ CheckTerminate \/ Cancel

SpecScorer == InitScorer /\ [][NextScorer]_vars

----------------------------------------------------------------------------
(* The canvas editor, CanvasGui of src/gui_canvas.rs, with the Document held *)
(* as the grid of its Solution (a sequence of columns, as above).  An        *)
(* Action is [kind |-> "ChangeColor", changes] with changes a function from  *)
(* cells <<x, y>> (from 0) to colors, or [kind |-> "ReplaceDocument",        *)
(* document].  The editor state handed through perform is the record         *)
(* [document, undo_stack, redo_stack]; the version counter, which no branch  *)
(* reads, is left out.                                                       *)

EditorPalette == {BACKGROUND, 1}
EditorCells == (0..(EdWidth - 1)) \X (0..(EdHeight - 1))
Documents == [1..EdWidth -> [1..EdHeight -> EditorPalette]]
Buttons == {"primary", "secondary", "middle"}
\* The documents a file is opened from: the blank canvas
OpenedDocuments == {[x \in 1..EdWidth |-> [y \in 1..EdHeight |-> BACKGROUND]]}

ChangeColor(changes) == [kind |-> "ChangeColor", changes |-> changes]
ReplaceDocument(doc) == [kind |-> "ReplaceDocument", document |-> doc]

\* picture.grid[x][y]
color_of(doc, c) == doc[c[1] + 1][c[2] + 1]

\* The grid with the cells of changes set to their colors
painted(doc, changes) ==
    [x \in 1..Len(doc) |-> [y \in 1..Len(doc[x]) |->
        IF <<x - 1, y - 1>> \in DOMAIN changes
        THEN changes[<<x - 1, y - 1>>] ELSE doc[x][y]]]

reversed(doc, action) ==
    IF action.kind = "ChangeColor"
    THEN ChangeColor([c \in DOMAIN action.changes |-> color_of(doc, c)])
    ELSE ReplaceDocument(doc)

Editor(doc, undo, redo) ==
    [document |-> doc, undo_stack |-> undo, redo_stack |-> redo]

Last(s) == s[Len(s)]
Front(s) == SubSeq(s, 1, Len(s) - 1)

\* The Merge and ReplaceAction moods reach the last undo entry only when it
\* and the action are both ChangeColor
can_merge(e, action, mood) ==
    /\ mood \in {"Merge", "ReplaceAction"}
    /\ Len(e.undo_stack) > 0
    /\ Last(e.undo_stack).kind = "ChangeColor"
    /\ action.kind = "ChangeColor"

\* Merge: only a cell the entry does not hold yet is recorded and painted
merged(e, changes, new_changes) ==
    Editor(painted(e.document,
                   [c \in DOMAIN new_changes \ DOMAIN changes |-> new_changes[c]]),
           Append(Front(e.undo_stack),
                  ChangeColor([c \in DOMAIN changes \cup DOMAIN new_changes |->
                      IF c \in DOMAIN changes THEN changes[c]
                      ELSE color_of(e.document, c)])),
           e.redo_stack)

\* ReplaceAction: the cells the entry held and the new action does not are
\* put back, then the new action is painted
replaced(e, changes, new_changes) ==
    Editor(painted(painted(e.document,
                           [c \in DOMAIN changes \ DOMAIN new_changes |-> changes[c]]),
                   new_changes),
           Append(Front(e.undo_stack),
                  ChangeColor([c \in DOMAIN new_changes |->
                      IF c \in DOMAIN changes THEN changes[c]
                      ELSE color_of(e.document, c)])),
           e.redo_stack)

\* The action carried out on the document
carried_out(doc, action) ==
    IF action.kind = "ChangeColor" THEN painted(doc, action.changes)
    ELSE action.document

\* The reversed action goes to the redo stack for Undo, else to the undo stack
pushed(e, action, mood) ==
    Editor(carried_out(e.document, action),
           IF mood = "Undo" THEN e.undo_stack
           ELSE Append(e.undo_stack, reversed(e.document, action)),
           IF mood = "Undo"
           THEN Append(e.redo_stack, reversed(e.document, action))
           ELSE IF mood = "Redo" THEN e.redo_stack ELSE <<>>)

perform(e, action, mood) ==
    IF can_merge(e, action, mood)
    THEN IF mood = "ReplaceAction"
         THEN replaced(e, Last(e.undo_stack).changes, action.changes)
         ELSE merged(e, Last(e.undo_stack).changes, action.changes)
    ELSE pushed(e, action, IF mood \in {"Merge", "ReplaceAction"} THEN "Normal" ELSE mood)

un_or_re_do(e, un) ==
    IF un
    THEN IF Len(e.undo_stack) = 0 THEN e
         ELSE perform(Editor(e.document, Front(e.undo_stack), e.redo_stack),
                      Last(e.undo_stack), "Undo")
    ELSE IF Len(e.redo_stack) = 0 THEN e
         ELSE perform(Editor(e.document, e.undo_stack, Front(e.redo_stack)),
                      Last(e.redo_stack), "Redo")

\* The color a pointer button paints the cell c with
paint_color(doc, c, current_color, button) ==
    IF button = "middle"
    THEN IF UNSOLVED \in EditorPalette THEN UNSOLVED ELSE BACKGROUND
    ELSE IF button = "secondary" THEN BACKGROUND
    ELSE IF color_of(doc, c) # current_color THEN current_color
    ELSE BACKGROUND

\* The cells of the orthographic line from start to c
line_points(start, c) ==
    IF Max({c[1] - start[1], start[1] - c[1]}) > Max({c[2] - start[2], start[2] - c[2]})
    THEN {<<xi, start[2]>> : xi \in Min({start[1], c[1]})..Max({start[1], c[1]})}
    ELSE {<<start[1], yi>> : yi \in Min({start[2], c[2]})..Max({start[2], c[2]})}

TheEditor == Editor(document, undo_stack, redo_stack)

\* The editor becomes e
Becomes(e) ==
    /\ document' = e.document
    /\ undo_stack' = e.undo_stack
    /\ redo_stack' = e.redo_stack

\* An editor opened on a document
InitEditor ==
    /\ LineIdle
    /\ GridIdle
    /\ SolverIdle
    /\ ScorerIdle
    /\ AnalyzerIdle
    /\ document \in Documents
    /\ undo_stack = <<>>
    /\ redo_stack = <<>>
    /\ drag_start_color \in EditorPalette
    /\ line_tool_state = <<>>
    /\ current_tool = "Pencil"
    /\ pointer_down = FALSE
    /\ edit_phase = "none"
    /\ stroke_before = <<>>
    /\ edit_before = <<>>
    /\ edit_after = <<>>

\* A perform that pushes an undo entry, while the stack has room
HasRoom(action, mood) ==
    can_merge(TheEditor, action, mood) \/ Len(undo_stack) < MaxUndo

\* The document before and after the pencil edit in progress: an edit starts
\* at a press, or at a drag that changes the document after an undo, a redo
\* or an edit of another kind, and takes in the drags that follow
edit_becomes(phase, before, after) ==
    /\ edit_phase' = phase
    /\ edit_before' = IF phase = "none" THEN <<>> ELSE before
    /\ edit_after' = IF phase = "none" THEN <<>> ELSE after

edit_recorded(e) ==
    /\ edit_becomes(IF edit_phase = "edited" \/ e.document # document
                    THEN "edited" ELSE "none",
                    IF edit_phase = "edited" THEN edit_before ELSE document,
                    e.document)
    /\ UNCHANGED stroke_before

edit_started(e) ==
    /\ edit_becomes("edited", document, e.document)
    /\ stroke_before' = document

\* The pencil, the frame a button goes down on the cell c
PencilPress ==
    \E c \in EditorCells, current_color \in EditorPalette, button \in Buttons :
        /\ document # <<>>
        /\ current_tool = "Pencil"
        /\ ~pointer_down
        /\ Len(undo_stack) < MaxUndo
        /\ pointer_down' = TRUE
        /\ drag_start_color' = paint_color(document, c, current_color, button)
        /\ Becomes(perform(TheEditor,
               ChangeColor([k \in {c} |-> paint_color(document, c, current_color, button)]),
               "Normal"))
        /\ edit_started(perform(TheEditor,
               ChangeColor([k \in {c} |-> paint_color(document, c, current_color, button)]),
               "Normal"))
        /\ UNCHANGED <<avars, lvars, gvars, svars, line_tool_state, current_tool>>

\* The pencil, a later frame with the button held and the pointer on the
\* cell c
PencilDrag ==
    \E c \in EditorCells :
        /\ document # <<>>
        /\ current_tool = "Pencil"
        /\ pointer_down
        /\ HasRoom(ChangeColor([k \in {c} |-> drag_start_color]), "Merge")
        /\ Becomes(perform(TheEditor, ChangeColor([k \in {c} |-> drag_start_color]), "Merge"))
        /\ edit_recorded(perform(TheEditor, ChangeColor([k \in {c} |-> drag_start_color]), "Merge"))
        /\ UNCHANGED <<avars, lvars, gvars, svars, drag_start_color, tvars>>

\* Another edit than the pencil's leaves no pencil edit to undo
edit_forgotten ==
    /\ edit_becomes("none", <<>>, <<>>)
    /\ UNCHANGED stroke_before

\* The orthographic line, the frame a button goes down on the cell c
LinePress ==
    \E c \in EditorCells, current_color \in EditorPalette, button \in Buttons :
        /\ document # <<>>
        /\ current_tool = "OrthographicLine"
        /\ ~pointer_down
        /\ Len(undo_stack) < MaxUndo
        /\ pointer_down' = TRUE
        /\ drag_start_color' = paint_color(document, c, current_color, button)
        /\ line_tool_state' = <<c>>
        /\ Becomes(perform(TheEditor,
               ChangeColor([k \in {c} |-> paint_color(document, c, current_color, button)]),
               "Normal"))
        /\ edit_forgotten
        /\ UNCHANGED <<avars, lvars, gvars, svars, current_tool>>

\* The orthographic line, a later frame with the button held and the pointer
\* on the cell c
LineDrag ==
    \E c \in EditorCells :
        /\ document # <<>>
        /\ current_tool = "OrthographicLine"
        /\ pointer_down
        /\ line_tool_state # <<>>
        /\ HasRoom(ChangeColor([k \in line_points(line_tool_state[1], c) |-> drag_start_color]),
                   "ReplaceAction")
        /\ Becomes(perform(TheEditor,
               ChangeColor([k \in line_points(line_tool_state[1], c) |-> drag_start_color]),
               "ReplaceAction"))
        /\ edit_forgotten
        /\ UNCHANGED <<avars, lvars, gvars, svars, drag_start_color, tvars>>

\* The frame the button goes up
Release ==
    /\ document # <<>>
    /\ pointer_down
    /\ pointer_down' = FALSE
    /\ line_tool_state' = IF current_tool = "OrthographicLine" THEN <<>>
                          ELSE line_tool_state
    /\ stroke_before' = <<>>
    /\ UNCHANGED <<avars, lvars, gvars, svars, document, undo_stack, redo_stack,
                   drag_start_color, current_tool, edit_phase, edit_before,
                   edit_after>>

\* A click on the tool selector
SelectTool ==
    \E tool \in {"Pencil", "OrthographicLine"} :
        /\ document # <<>>
        /\ ~pointer_down
        /\ tool # current_tool
        /\ current_tool' = tool
        /\ UNCHANGED <<avars, lvars, gvars, svars, document, undo_stack, redo_stack,
                       drag_start_color, line_tool_state, pointer_down,
                       edit_phase, stroke_before, edit_before, edit_after>>

\* A file was opened: perform(ReplaceDocument, Normal)
OpenDocument ==
    \E doc \in OpenedDocuments :
        /\ document # <<>>
        /\ Len(undo_stack) < MaxUndo
        /\ doc # document
        /\ Becomes(perform(TheEditor, ReplaceDocument(doc), "Normal"))
        /\ edit_forgotten
        /\ UNCHANGED <<avars, lvars, gvars, svars, drag_start_color, tvars>>

\* The Z key, or the undo button while no pointer button is held
Undo ==
    /\ document # <<>>
    /\ Becomes(un_or_re_do(TheEditor, TRUE))
    /\ edit_becomes(IF Len(undo_stack) = 0 THEN edit_phase
                    ELSE IF edit_phase = "edited" THEN "undone" ELSE "none",
                    edit_before, edit_after)
    /\ UNCHANGED <<avars, lvars, gvars, svars, drag_start_color, tvars, stroke_before>>

\* The Y key, or the redo button while no pointer button is held
Redo ==
    /\ document # <<>>
    /\ Becomes(un_or_re_do(TheEditor, FALSE))
    /\ edit_becomes(IF Len(redo_stack) = 0 THEN edit_phase
                    ELSE IF edit_phase = "undone" THEN "redone" ELSE "none",
                    edit_before, edit_after)
    /\ UNCHANGED <<avars, lvars, gvars, svars, drag_start_color, tvars, stroke_before>>

NextEditor ==
    \/ PencilPress \/ PencilDrag \/ LinePress \/ LineDrag \/ Release
    \/ SelectTool \/ OpenDocument \/ Undo \/ Redo

SpecEditor == InitEditor /\ [][NextEditor]_vars

----------------------------------------------------------------------------
(* Properties of the grid solver *)

\* The (row, column) positions (from 1) of the cells of g that are not known
UnknownCells(g) ==
    {c \in (1..Len(g)) \X (1..Len(g[1])) : ~is_known(g[c[1]][c[2]])}

\* solve_grid has returned, a Report or an error
Returned == pc \in {"done", "err", "panic"}

\* The run is solve(solution_to_puzzle(picture))
FromPicture ==
    /\ puzzle = solution_to_puzzle(picture, GridPalette)
    /\ seed = full_grid(puzzle)

\* The complete Solutions whose puzzle is p
Solutions(p) ==
    {sol \in PicturesOf(<<Len(p.cols), Len(p.rows)>>) :
        solution_to_puzzle(sol, p.palette) = p}

Ambiguous(sol) ==
    Cardinality(Solutions(solution_to_puzzle(sol, GridPalette))) > 1

\* The Report's grid agrees with the picture wherever the mask says solved
AgreesOnSolved ==
    \A x \in 1..x_size(picture), y \in 1..y_size(picture) :
        report.solved_mask[x][y] => report.solution[x][y] = picture[x][y]

\* C2, as claimed: solve(solution_to_puzzle(S)) with the default options
\* returns without error a grid equal to S, or, when S is ambiguous, a grid
\* that agrees with S on every cell marked solved.
RoundTrip ==
    (Returned /\ FromPicture /\ options = NoOptions) =>
        /\ pc = "done"
        /\ IF Ambiguous(picture) THEN AgreesOnSolved
           ELSE report.solution = picture

\* C2, amended: solve(solution_to_puzzle(S)) returns without error, under any
\* options, a grid that agrees with S on every cell marked solved (so it is S
\* when every cell is marked solved); an S that is not ambiguous may still be
\* left partly unsolved.
RoundTripOnSolved ==
    (Returned /\ FromPicture) =>
        /\ pc = "done"
        /\ AgreesOnSolved
        /\ (report.cells_left = 0 => report.solution = picture)

RoundTripOnSolvedWitness ==
    /\ pc = "done"
    /\ FromPicture
    /\ \E x \in 1..x_size(picture), y \in 1..y_size(picture) :
          report.solved_mask[x][y] /\ picture[x][y] # BACKGROUND
    /\ \E x \in 1..x_size(picture), y \in 1..y_size(picture) :
          ~report.solved_mask[x][y]

\* The number of colors the cells of g still admit, all cells together
Bits(g) ==
    Cardinality({t \in (1..Len(g)) \X (1..Len(g[1])) \X GridPalette :
                    t[3] \in g[t[1]][t[2]]})

\* The number of (lane, mode) pairs whose processed flag is clear
Unprocessed(lanes) ==
    Cardinality({t \in (1..Len(lanes)) \X ModeSet :
                    ~lanes[t[1]].per_mode[t[2]].processed})

\* A measure of the work the loop has left: the colors still admitted, then
\* the flags still clear, then the budget of Skim, in lexicographic order
Rank ==
    (Bits(grid) * (2 * Len(solve_lanes) + 1) + Unprocessed(solve_lanes))
        * (initial_allowed_failures["skim"] + 1)
    + allowed_failures["skim"]

\* C3: the loop of solve_grid ends after finitely many iterations: every step
\* from inside the loop is one iteration; wherever the loop stands, the next
\* iteration changes the state and the cap on invocations is out of reach; and
\* an iteration that does not return strictly lowers Rank, a natural number.
\* So the loop returns, a Report or an error, and cannot cycle between
\* escalation, budget resets and re-examination.
Terminates ==
    [][/\ pc = "loop" =>
             /\ SV' = solve_iteration(options, SV)
             /\ pc' = "loop" => (Rank' < Rank /\ Rank' >= 0)
       /\ pc' = "loop" =>
             /\ Invocations' < MaxInvocations
             /\ solve_iteration(options', SV') # SV']_vars

TerminatesWitness ==
    /\ pc = "done"
    /\ solve_counts["scrub"] >= 2
    /\ solve_counts["skim"] >= 5
    /\ cells_left > 0

\* Skim or Scrub on the lane changes a cell of it
LaneNarrows(cs, l) == skim_line(cs, l).lane # l \/ scrub_line(cs, l).lane # l

\* C4, as claimed: when solve_grid returns a Report with max_effort = Scrub,
\* either no cell of the grid is unknown or neither Skim nor Scrub narrows a
\* cell of any row or column of the grid.
FixedPointAtReturn ==
    (pc = "done" /\ options.max_effort = "scrub") =>
        \/ UnknownCells(grid) = {}
        \/ \A k \in 1..Len(solve_lanes) :
              ~LaneNarrows(solve_lanes[k].clues, get_grid_lane(solve_lanes[k], grid))

\* C6: solve_grid returns an error exactly when a line-solver call of the run
\* returned Err, no lane is processed after that call, and a run without one
\* returns a Report that carries the grid and the counts.
ContradictionIsFatal ==
    /\ (pc = "err") <=> (raised > 0)
    /\ raised <= 1
    /\ pc = "done" =>
          /\ report.solution = grid_to_solution(grid)
          /\ report.solved_mask = grid_to_solved_mask(grid)
          /\ report.solve_counts = solve_counts
          /\ report.cells_left = cells_left

ContradictionIsFatalWitness ==
    /\ pc = "err"
    /\ raised = 1
    /\ Invocations >= 3

\* C7, as claimed: the cells_left of a Report is the number of cells of the
\* grid that are still unknown, also when the run started from a seeded grid.
CellsLeftCountsUnknown ==
    pc = "done" => report.cells_left = Cardinality(UnknownCells(grid))

\* C8, as claimed: the Report's grid holds the color of every known cell and
\* Unsolved for every unknown cell, and the mask is true exactly at the known
\* cells.
SnapshotMarksUnknown ==
    pc = "done" =>
        \A y \in 1..Len(grid), x \in 1..Len(grid[1]) :
            /\ report.solved_mask[x][y] = is_known(grid[y][x])
            /\ report.solution[x][y] =
                  (IF is_known(grid[y][x]) THEN known_or(grid[y][x]) ELSE UNSOLVED)

\* C9: a run with a line cache, empty or left by an earlier solve, returns
\* what the run on the same puzzle, options and grid returns without a cache:
\* the same outcome, final grid and cells_left.
CacheFaithful ==
    (Returned /\ line_cache.some) =>
        LET plain == solve_loop(options, solve_grid_entry(puzzle, NoCache, seed))
        IN /\ plain.pc = pc
           /\ plain.grid = grid
           /\ plain.cells_left = cells_left
           /\ plain.report.solution = report.solution
           /\ plain.report.solved_mask = report.solved_mask

CacheFaithfulWitness ==
    /\ pc = "done"
    /\ solves = 2
    /\ solve_counts["scrub"] > 0
    /\ \E key \in DOMAIN line_cache.map : line_cache.map[key].report # <<>>

\* C14, as claimed: solve rejects a puzzle that is not well formed (empty
\* dimensions, clues longer than their lane, a clue of a color outside the
\* palette) on entry: it returns no Report, and where it fails it has run the
\* line solver on no lane.
IllFormedRejected ==
    (~WellFormed(puzzle) /\ seed = full_grid(puzzle)) =>
        /\ pc # "done"
        /\ Returned => Invocations = 0

\* C15, as claimed: a run of a well-formed puzzle on a seed whose shape is not
\* the puzzle's fails: it returns no Report and changes no cell of the seed.
MismatchedSeedFatal ==
    (pc # "idle" /\ WellFormed(puzzle) /\ ~SameShape(puzzle, seed)) =>
        /\ pc # "done"
        /\ grid = seed

\* cells_left of a solve, without a cache, of the puzzle of s
PlainLeft(s) == solve(to_puzzle(s), NoCache, NoOptions).report.cells_left

\* The colors of the palette other than the color of the cell (x, y from 1)
Alternatives(s, x, y) == Palette \ {s[x][y]}

\* The smallest number of unknown cells a change of the cell leaves
LeastLeft(s, x, y) ==
    Min({PlainLeft(with_cell(s, x, y, c)) : c \in Alternatives(s, x, y)})

\* The first color, in the order of the keys, that attains LeastLeft
FirstBest(s, x, y, order) ==
    order[Min({i \in 1..Len(order) :
                 /\ order[i] \in Alternatives(s, x, y)
                 /\ PlainLeft(with_cell(s, x, y, order[i])) = LeastLeft(s, x, y)})]

\* The cells in the order of the loops: x outside, y inside, both from 1
CellAt(s, n) == <<(n \div y_size(s)) + 1, (n % y_size(s)) + 1>>
ScoredCells(s, n) == {CellAt(s, k) : k \in 0..(n - 1)}

\* C16: a run that was not cancelled, on a picture whose baseline solve leaves
\* U > 0 cells unknown, returns for every cell (best_c, m / U): m the least
\* number of unknown cells over the solves of the picture with that cell
\* changed to another color of the palette, best_c a color that attains m.
BestAlternative ==
    (scorer_pc = "done" /\ orig_cells_left > 0) =>
        /\ orig_cells_left = PlainLeft(picture)
        /\ \A c \in ScoredCells(picture, cell_count(picture)) :
              /\ res[c[1]][c[2]].score =
                    f32_div(LeastLeft(picture, c[1], c[2]), orig_cells_left)
              /\ res[c[1]][c[2]].color \in Alternatives(picture, c[1], c[2])
              /\ PlainLeft(with_cell(picture, c[1], c[2], res[c[1]][c[2]].color))
                    = LeastLeft(picture, c[1], c[2])

BestAlternativeWitness ==
    /\ scorer_pc = "done"
    /\ orig_cells_left > 0
    /\ \E c \in ScoredCells(picture, cell_count(picture)) :
          /\ \E d \in Alternatives(picture, c[1], c[2]) :
                PlainLeft(with_cell(picture, c[1], c[2], d))
                    > LeastLeft(picture, c[1], c[2])

\* C17, as claimed: the values sent on the progress channel never decrease,
\* and the last value of a run that returned without a message on the
\* terminate channel is 1.0.
ProgressOrdered ==
    /\ \A i, j \in 1..Len(sent) : i <= j => f32_le(sent[i], sent[j])
    /\ (scorer_pc = "done" /\ ~fired) =>
          (sent # <<>> /\ sent[Len(sent)] = f32_div(1, 1))

\* C18: after a message on the terminate channel the scorer starts at most
\* one more cell, and the array a cancelled run returns holds the entry of
\* every cell scored (m / U and the first color of the keys that attains m)
\* and (Background, 0.0) for every other cell.
CancelStops ==
    /\ late_cells <= 1
    /\ scorer_pc = "cancelled" =>
          /\ fired
          /\ \A x \in 1..x_size(picture), y \in 1..y_size(picture) :
                res[x][y] =
                    IF <<x, y>> \in ScoredCells(picture, next_cell)
                    THEN [color |-> FirstBest(picture, x, y, keys),
                          score |-> f32_div(LeastLeft(picture, x, y),
                                            orig_cells_left)]
                    ELSE default_entry

CancelStopsWitness ==
    /\ scorer_pc = "cancelled"
    /\ late_cells = 1
    /\ next_cell >= 2
    /\ next_cell < cell_count(picture)

\* C20, as claimed: undo right after a pencil edit leaves the document as it
\* was before the edit (before the press of the stroke, or before the first
\* cell drawn since the stroke was last interrupted), and redo right after
\* that undo leaves it as it was after the edit.
UndoRedoInverse ==
    /\ edit_phase = "undone" => document \in {stroke_before, edit_before}
    /\ edit_phase = "redone" => document = edit_after

----------------------------------------------------------------------------
(* Properties of one iteration of the loop of solve_grid.  They are stated   *)
(* over the step from the state at the top of the iteration: the mode and    *)
(* the lane the iteration chooses, and what the line solver returns for it.  *)

\* The iteration at hand invokes the line solver
Invoking == pc = "loop" /\ BestLane # 0

\* What the line solver returns for the lane and the mode chosen
LineOutcome ==
    run_line(solve_lanes[BestLane], BestGridLane, line_cache, CurrentMode).st

\* The report and the lane after the optional color filter
StepReport == filtered(options, BestGridLane, LineOutcome)

\* The iteration at hand invokes the line solver, which returns Ok, and the
\* loop goes on after it
Continues == Invoking /\ LineOutcome.status = "ok" /\ pc' = "loop"

SkimBudget == allowed_failures["skim"]

\* What C21 says of the choice of the mode, of the first budget and of the
\* reset by Scrub
ModeFollowsBudget ==
    /\ (pc = "idle" /\ pc' = "loop") =>
          /\ SkimBudget' = 10
          /\ allowed_failures' = initial_allowed_failures
    /\ Invoking =>
          /\ CurrentMode = (IF SkimBudget > 0 THEN "skim" ELSE "scrub")
          /\ solve_counts' = counted(SV, CurrentMode)
    /\ (Continues /\ CurrentMode = "scrub" /\ StepReport.affected # <<>>) =>
          SkimBudget' = 10

\* C21, as claimed: Skim runs while its budget is positive and Scrub once it
\* is exhausted; the budget starts at 10, is one less after every invocation
\* of the chosen mode that affects no cell, and is back at 10 after every
\* invocation of Scrub that affects a cell.
BudgetAlwaysCharged ==
    [][/\ ModeFollowsBudget
       /\ (Continues /\ CurrentMode = "skim" /\ StepReport.affected = <<>>) =>
             SkimBudget' = SkimBudget - 1]_vars

\* C21, amended: as above, but the budget of Skim is charged only while Scrub
\* is allowed (max_effort = Scrub); with max_effort = Skim an invocation that
\* affects no cell leaves the budget as it is.
ModeAndBudget ==
    [][/\ ModeFollowsBudget
       /\ (Continues /\ CurrentMode = "skim" /\ StepReport.affected = <<>>) =>
             SkimBudget' = (IF options.max_effort = "scrub" THEN SkimBudget - 1
                            ELSE SkimBudget)]_vars

\* Scrub has run, so the budget of Skim was exhausted and then set again, and
\* Skim has been charged since
ModeAndBudgetWitness ==
    /\ pc = "loop"
    /\ options.max_effort = "scrub"
    /\ solve_counts["scrub"] >= 1
    /\ solve_counts["skim"] >= 3
    /\ SkimBudget = 9

\* C22, as claimed: after every invocation, in Skim or in Scrub, that affects
\* at least one cell, the budget of Skim is 10.
ProgressResetsBudget ==
    [][(Continues /\ StepReport.affected # <<>>) => SkimBudget' = 10]_vars

\* The lanes whose processed flag for the mode is clear
Unflagged(mode) ==
    {k \in 1..Len(solve_lanes) : ~solve_lanes[k].per_mode[mode].processed}

\* The effective score of lane k: score minus processed_score, kept inside i32
ScoreOf(k, mode) == effective_score(solve_lanes[k], mode)

\* The step is an invocation in the mode that the line solver returned Ok from
InvokedIn(mode) ==
    /\ pc = "loop"
    /\ pc' \in {"loop", "done"}
    /\ solve_counts'[mode] = solve_counts[mode] + 1

\* The lane the step has invoked: its flag for the mode was clear and is set
InvokedLanes(mode) ==
    {k \in Unflagged(mode) : solve_lanes'[k].per_mode[mode].processed}

\* Lane k has the highest effective score among the lanes whose flag is clear,
\* and is the first of the lanes that have it
FirstOfTheBest(k, mode) ==
    /\ k \in Unflagged(mode)
    /\ \A j \in Unflagged(mode) :
          /\ ScoreOf(j, mode) <= ScoreOf(k, mode)
          /\ ScoreOf(j, mode) = ScoreOf(k, mode) => k <= j

\* The step escalates or returns without an invocation
NothingInvoked ==
    /\ pc = "loop"
    /\ solve_counts' = solve_counts
    /\ pc' # "loop" \/ allowed_failures' # allowed_failures

PicksTheBest ==
    \A mode \in ModeSet :
        InvokedIn(mode) =>
            /\ mode = CurrentMode
            /\ Cardinality(InvokedLanes(mode)) = 1
            /\ \A k \in InvokedLanes(mode) : FirstOfTheBest(k, mode)

\* C23, as claimed: every invocation is on the first of the lanes of highest
\* effective score for the current mode among those whose flag for the mode
\* is clear, and the solver escalates or returns without an invocation only
\* when no lane has that flag clear.
SelectsUntilAllFlagged ==
    [][/\ PicksTheBest
       /\ NothingInvoked => Unflagged(CurrentMode) = {}]_vars

\* C23, amended: every invocation is on the first of the lanes of highest
\* effective score for the current mode among those whose flag for the mode
\* is clear, and the solver escalates or returns without an invocation
\* exactly when every lane whose flag is clear has the effective score
\* i32::MIN.
LaneSelection ==
    [][/\ PicksTheBest
       /\ pc = "loop" =>
             (NothingInvoked <=>
                \A k \in Unflagged(CurrentMode) : ScoreOf(k, CurrentMode) = I32_MIN)]_vars

\* After some invocations a column ties with another lane for the highest
\* effective score, and the solver has also passed over lanes of score
\* i32::MIN
LaneSelectionWitness ==
    /\ Invoking
    /\ Invocations >= 2
    /\ \E j \in Unflagged(CurrentMode) :
          /\ j # BestLane
          /\ ~solve_lanes[j].row
          /\ ScoreOf(j, CurrentMode) = ScoreOf(BestLane, CurrentMode)
    /\ \E j \in Unflagged(CurrentMode) : ScoreOf(j, CurrentMode) = I32_MIN

\* Lane j crosses the lane at hand at a cell of the report
Crosses(j) ==
    /\ solve_lanes[j].row # solve_lanes[BestLane].row
    /\ solve_lanes[j].index \in Range(StepReport.affected)

\* The scores of lane j in the next state are those of its cells there, and
\* its processed_scores are as they were
Rescored(j) ==
    LET l == get_grid_lane(solve_lanes[j], grid') IN
    \A mode \in ModeSet :
        /\ solve_lanes'[j].per_mode[mode].processed_score
              = solve_lanes[j].per_mode[mode].processed_score
        /\ solve_lanes'[j].per_mode[mode].score
              = (IF \A i \in 1..Len(l) : is_known(l[i]) THEN I32_MIN
                 ELSE IF mode = "scrub" THEN scrub_heuristic(solve_lanes[j].clues, l)
                 ELSE skim_heuristic(solve_lanes[j].clues, l))

\* C24: after an invocation on lane L in mode m that leaves the loop running,
\* the processed flag of L for m is set and its flag for the other mode is as
\* it was; the lanes of the other orientation whose index is in the affected
\* set have their flags clear for every mode and the scores of their cells in
\* the new grid; every other lane is as it was.
PropagationFrame ==
    [][Continues =>
         /\ Len(solve_lanes') = Len(solve_lanes)
         /\ solve_lanes'[BestLane].per_mode[CurrentMode].processed
         /\ \A mode \in ModeSet \ {CurrentMode} :
               solve_lanes'[BestLane].per_mode[mode].processed
                 = solve_lanes[BestLane].per_mode[mode].processed
         /\ \A j \in (1..Len(solve_lanes)) \ {BestLane} :
               IF Crosses(j)
               THEN /\ \A mode \in ModeSet : ~solve_lanes'[j].per_mode[mode].processed
                    /\ Rescored(j)
               ELSE solve_lanes'[j] = solve_lanes[j]]_vars

\* A lane that was processed before has its flags clear again, next to a lane
\* of its orientation that kept a flag
PropagationFrameWitness ==
    /\ pc = "loop"
    /\ Invocations >= 3
    /\ \E j, k \in 1..Len(solve_lanes) :
          /\ solve_lanes[j].row = solve_lanes[k].row
          /\ \A mode \in ModeSet : ~solve_lanes[j].per_mode[mode].processed
          /\ solve_lanes[j].per_mode["skim"].processed_score # 0
          /\ solve_lanes[k].per_mode["skim"].processed

\* The lane at hand as the step leaves it in the grid
LaneAfter == get_grid_lane(solve_lanes[BestLane], grid')

\* The indices (from 0) of the cells of the lane at hand that the step changes
ChangedInStep == {i - 1 : i \in {n \in 1..Len(BestGridLane) : LaneAfter[n] # BestGridLane[n]}}

\* The cells of the lane at hand that the step makes known
LearnedInStep == KnownCount(LaneAfter) - KnownCount(BestGridLane)

----------------------------------------------------------------------------
(* Seeding a grid from a partial Solution, and the line analysis of the    *)
(* seeded grid: a picture gives the clues, a Solution of its shape with     *)
(* any cell a color of the palette or Unsolved is what the player has       *)
(* painted.                                                                 *)

\* The number of cells of the pictures that are seeded and analysed
MaxSeeded == 4

\* Cell::new_anything(): all 32 bits of the mask
new_anything == 0..31

\* Fault injection for SeededCells: an Unsolved cell is seeded as background
to_partial_background(sol) ==
    [y \in 1..y_size(sol) |-> [x \in 1..x_size(sol) |->
        IF sol[x][y] = UNSOLVED THEN from_color(BACKGROUND)
        ELSE from_color(sol[x][y])]]

\* Solution::to_partial: an Array2 of y_size rows by x_size columns
to_partial(sol) ==
    [y \in 1..y_size(sol) |-> [x \in 1..x_size(sol) |->
        IF sol[x][y] = UNSOLVED THEN new_anything ELSE from_color(sol[x][y])]]

\* grid_from_solution: an Array2 of shape (x_size, y_size), filled at [[x, y]]
grid_from_solution(sol, p) ==
    [x \in 1..x_size(sol) |-> [y \in 1..y_size(sol) |->
        IF sol[x][y] = UNSOLVED THEN new_cell(p) ELSE from_color(sol[x][y])]]

\* any_newly_known of analyze_line
any_newly_known(original_lane, new_lane) ==
    \E i \in 1..Len(original_lane) :
        ~is_known(original_lane[i]) /\ is_known(new_lane[i])

\* Fault injection for LineStatusClassification: Scrub is never tried
analyze_line_skim_only(cs, l) ==
    LET skim == skim_line(cs, l) IN
    IF skim.status # "ok" THEN "err"
    ELSE IF any_newly_known(l, skim.lane) THEN "skim"
    ELSE "none"

\* analyze_line: "skim" is Ok(Some(Skim)), "scrub" Ok(Some(Scrub)), "none"
\* Ok(None), "err" the Err of the routine that failed
analyze_line(cs, l) ==
    LET skim == skim_line(cs, l) IN
    IF skim.status # "ok" THEN "err"
    ELSE IF any_newly_known(l, skim.lane) THEN "skim"
    ELSE LET scrub == exhaust_line(cs, l) IN
         IF scrub.status # "ok" THEN "err"
         ELSE IF any_newly_known(l, scrub.lane) THEN "scrub"
         ELSE "none"

\* grid.row(idx)
grid_row(g, idx) == g[idx + 1]

\* grid.column(idx)
grid_column(g, idx) == [y \in 1..Len(g) |-> g[y][idx + 1]]

\* analyze_lines; a row or column view outside the grid panics
analyze_lines(p, g) ==
    IF ~lanes_fit(p, g) THEN [NoTechniques EXCEPT !.status = "panic"]
    ELSE [rows |-> [k \in 1..Len(p.rows) |->
                       analyze_line(p.rows[k], grid_row(g, k - 1))],
          cols |-> [k \in 1..Len(p.cols) |->
                       analyze_line(p.cols[k], grid_column(g, k - 1))],
          status |-> "ok"]

SeededDims == {d \in (1..MaxSeeded) \X (1..MaxSeeded) : d[1] * d[2] <= MaxSeeded}

\* The pictures of a shape in three colors
ColorPicturesOf(d) == [1..d[1] -> [1..d[2] -> Palette]]

\* What the player may have painted on a canvas of that shape
PaintedOf(d) == [1..d[1] -> [1..d[2] -> Palette \cup {UNSOLVED}]]

InitAnalyzer ==
    /\ LineIdle
    /\ \E d \in SeededDims :
          /\ picture \in ColorPicturesOf(d)
          /\ solution \in PaintedOf(d)
    /\ puzzle = solution_to_puzzle(picture, Palette)
    /\ options = NoOptions
    /\ line_cache = NoCache
    /\ SolverIdle
    /\ ScorerIdle
    /\ EditorIdle
    /\ seeded_by = "none"
    /\ partial = <<>>
    /\ techniques = NoTechniques
    /\ heuristic = None

\* picture.to_partial()
ToPartial ==
    /\ seeded_by = "none"
    /\ seeded_by' = "to_partial"
    /\ partial' = to_partial(solution)
    /\ UNCHANGED <<lvars, gvars, svars, evars, solution, techniques, heuristic>>

\* grid_from_solution(&solution, &puzzle)
GridFromSolution ==
    /\ seeded_by = "none"
    /\ seeded_by' = "grid_from_solution"
    /\ partial' = grid_from_solution(solution, puzzle)
    /\ UNCHANGED <<lvars, gvars, svars, evars, solution, techniques, heuristic>>

\* clues.analyze_lines(&grid)
AnalyzeLines ==
    /\ seeded_by # "none"
    /\ techniques.status = "none"
    /\ techniques' = analyze_lines(puzzle, partial)
    /\ UNCHANGED <<lvars, gvars, svars, evars, solution, seeded_by, partial,
                   heuristic>>

NextAnalyzer == ToPartial \/ GridFromSolution \/ AnalyzeLines

SpecAnalyzer == InitAnalyzer /\ [][NextAnalyzer]_vars

\* The cell of the seeded grid that stands for the cell (x, y) of the Solution
SeededCell(x, y) ==
    IF seeded_by = "to_partial" THEN partial[y][x] ELSE partial[x][y]

\* C26 as claimed: seeding makes every Unsolved cell of the Solution the full
\* Cell of exactly the palette colors, and every known cell the singleton Cell
\* of its color.
SeedsFullCells ==
    seeded_by # "none" =>
        \A x \in 1..x_size(solution) : \A y \in 1..y_size(solution) :
            SeededCell(x, y) =
                IF solution[x][y] = UNSOLVED THEN new_cell(puzzle)
                ELSE from_color(solution[x][y])

\* C26 amended: seeding makes every known cell of the Solution the singleton
\* Cell of its color, and every Unsolved cell a Cell that holds every palette
\* color: exactly the palette colors under grid_from_solution, all 32 colors
\* of the mask under Solution::to_partial.
SeededCells ==
    seeded_by # "none" =>
        \A x \in 1..x_size(solution) : \A y \in 1..y_size(solution) :
            /\ solution[x][y] # UNSOLVED =>
                  SeededCell(x, y) = from_color(solution[x][y])
            /\ solution[x][y] = UNSOLVED =>
                  /\ new_cell(puzzle) \subseteq SeededCell(x, y)
                  /\ seeded_by = "grid_from_solution" =>
                        SeededCell(x, y) = new_cell(puzzle)
                  /\ seeded_by = "to_partial" => SeededCell(x, y) = new_anything

\* A Solution of two rows with an Unsolved cell and a painted one went through
\* to_partial
SeededCellsWitness ==
    /\ seeded_by = "to_partial"
    /\ y_size(solution) = 2
    /\ solution[1][1] = UNSOLVED
    /\ solution[1][2] = 2
    /\ partial = <<<<new_anything>>, <<from_color(2)>>>>

\* The lanes analyze_lines looked at, rows before columns, each with its clues
\* and the status reported for it
Analysed ==
    {[clues |-> puzzle.rows[k], lane |-> grid_row(partial, k - 1),
      status |-> techniques.rows[k]] : k \in 1..Len(techniques.rows)}
    \cup {[clues |-> puzzle.cols[k], lane |-> grid_column(partial, k - 1),
           status |-> techniques.cols[k]] : k \in 1..Len(techniques.cols)}

\* The cells of the lane l that are not known and are known in the lane new
Learned(l, new) ==
    {i \in 1..Len(l) : Cardinality(l[i]) # 1 /\ Cardinality(new[i]) = 1}

\* The status of a lane if the analyzer went by any change of the lane
StatusByChange(cs, l) ==
    IF skim_line(cs, l).status # "ok" THEN "err"
    ELSE IF skim_line(cs, l).lane # l THEN "skim"
    ELSE IF exhaust_line(cs, l).status # "ok" THEN "err"
    ELSE IF exhaust_line(cs, l).lane # l THEN "scrub"
    ELSE "none"

\* C27 as claimed: a lane is Skim-sufficient when Skim changes anything in a
\* copy of it, Scrub-required when Skim changes nothing and Scrub changes
\* anything, None when neither changes anything, and a contradiction when the
\* routine that ran failed.
StatusFollowsChange ==
    \A a \in Analysed : a.status = StatusByChange(a.clues, a.lane)

\* C27 amended: a lane is Skim-sufficient when Skim makes a cell known that
\* was not; otherwise Scrub runs on a fresh copy, and the lane is
\* Scrub-required when Scrub makes a cell known that was not and None when
\* neither does, even if they narrowed cells; it is a contradiction when Skim
\* fails, or when Skim made no cell known and Scrub fails.
LineStatusClassification ==
    \A a \in Analysed :
        LET skim == skim_line(a.clues, a.lane)
            scrub == exhaust_line(a.clues, a.lane)
        IN  /\ a.status = "skim" <=>
                  skim.status = "ok" /\ Learned(a.lane, skim.lane) # {}
            /\ a.status = "scrub" <=>
                  /\ skim.status = "ok" /\ Learned(a.lane, skim.lane) = {}
                  /\ scrub.status = "ok" /\ Learned(a.lane, scrub.lane) # {}
            /\ a.status = "none" <=>
                  /\ skim.status = "ok" /\ Learned(a.lane, skim.lane) = {}
                  /\ scrub.status = "ok" /\ Learned(a.lane, scrub.lane) = {}
            /\ a.status = "err" <=>
                  \/ skim.status # "ok"
                  \/ Learned(a.lane, skim.lane) = {} /\ scrub.status # "ok"

\* analyze_lines found a lane that Skim narrowed without making a cell known
\* and in which Scrub made a cell known, and a lane that failed
LineStatusClassificationWitness ==
    /\ techniques.status = "ok"
    /\ \E a \in Analysed :
          /\ a.status = "scrub"
          /\ skim_line(a.clues, a.lane).lane # a.lane
    /\ \E a \in Analysed : a.status = "err"

----------------------------------------------------------------------------
(* The Skim score of a lane: a clue vector and a lane are drawn, then      *)
(* skim_heuristic runs on them.                                            *)

InitHeuristic ==
    /\ \E line \in BWLines \cup ColorLines \cup LongLines :
          /\ clues = line[1]
          /\ lane = line[2]
    /\ op = "none"
    /\ out = NoOut
    /\ out2 = NoOut
    /\ GridIdle
    /\ OthersIdle

SkimHeuristic ==
    /\ op = "none"
    /\ op' = "skim_heuristic"
    /\ heuristic' = skim_heuristic(clues, lane)
    /\ UNCHANGED <<clues, lane, out, out2, gvars, svars, evars, solution,
                   seeded_by, partial, techniques>>

SpecHeuristic == InitHeuristic /\ [][SkimHeuristic]_vars

\* The cell i of the lane l is not known to be background
Free(l, i) == l[i] # {BACKGROUND}

\* The length of the longest run of cells of l not known to be background
FreeRun(l) ==
    Max({0} \cup {n \in 1..Len(l) : \E a \in 1..(Len(l) - n + 1) :
                                      \A i \in a..(a + n - 1) : Free(l, i)})

\* The ends of the lane l that are not known to be background
FreeEnds(l) == {i \in {1, Len(l)} : Free(l, i)}

\* The lanes of the length of l with the ends of l, against which the score of
\* l is compared
Comparable(l) ==
    {m \in [1..Len(l) -> {{BACKGROUND}, {BACKGROUND, 1}}] :
        FreeEnds(m) = FreeEnds(l)}

\* C28 as claimed: the Skim score of a lane with clues is its longest free run
\* minus the total clue length plus something non-negative for each end not
\* known to be background, so that of two lanes with the same clues and ends
\* the one with the longer free run never scores lower.
ScoreGrowsWithFreeRun ==
    (op = "skim_heuristic" /\ clues # <<>>) =>
        /\ heuristic >= FreeRun(lane) - SumLen(clues)
        /\ FreeEnds(lane) = {} => heuristic = FreeRun(lane) - SumLen(clues)
        /\ \A m \in Comparable(lane) :
              FreeRun(m) >= FreeRun(lane) =>
                  skim_heuristic(clues, m) >= heuristic

\* The two ends of a lane count once each, also in a lane of one cell
EndsBonus(l) ==
    (IF Free(l, 1) THEN 2 ELSE 0) + (IF Free(l, Len(l)) THEN 2 ELSE 0)

\* C28 amended: the Skim score of a lane with clues is the total clue length
\* plus the length of the longest clue, minus the longest free run, plus 2
\* for each end of the lane not known to be background; so of two lanes with
\* the same clues and ends the one with the longer free run never scores
\* higher.
SkimScore ==
    (op = "skim_heuristic" /\ clues # <<>>) =>
        /\ heuristic =
              SumLen(clues) + Max({len(clues[k]) : k \in 1..Len(clues)})
              - FreeRun(lane) + EndsBonus(lane)
        /\ \A m \in Comparable(lane) :
              FreeRun(m) >= FreeRun(lane) =>
                  skim_heuristic(clues, m) <= heuristic

\* The score of the lane x b x x with the clue of three black cells: its free
\* run is the whole lane and both ends are free
SkimScoreWitness ==
    /\ op = "skim_heuristic"
    /\ clues = <<Nono(1, 3)>>
    /\ lane = <<{0, 1}, {1}, {0, 1}, {0, 1}>>
    /\ heuristic = 6

----------------------------------------------------------------------------
(* Lanes that cannot change                                                *)

\* Every cell of the lane l is known
AllKnown(l) == \A i \in 1..Len(l) : is_known(l[i])

\* Tall pictures: TallWidth columns by TallHeight rows, the first and the
\* last row blank and the row in the middle full, so that the ends of every
\* column are soon known to be background
TallWidth == 3
TallHeight == 6
FullRow == TallHeight - 2

TallPictures ==
    {p \in PicturesOf(<<TallWidth, TallHeight>>) :
        \A x \in 1..TallWidth :
            /\ p[x][1] = BACKGROUND
            /\ p[x][TallHeight] = BACKGROUND
            /\ p[x][FullRow] = 1}

\* A caller holding the puzzle of a tall picture
InitTall ==
    /\ LineIdle
    /\ picture \in TallPictures
    /\ puzzle = solution_to_puzzle(picture, GridPalette)
    /\ options \in [max_effort : ModeSet, only_solve_color : {None}]
    /\ line_cache = NoCache
    /\ SolverIdle
    /\ OthersIdle

NextTall == Solve \/ GiveUp \/ Escalate \/ InvokeSkim \/ InvokeScrub

SpecTall == InitTall /\ [][NextTall]_vars

\* C29: the loop of solve_grid never hands the line solver a lane all of whose
\* cells are known, in any mode and whatever the scores the lane had when it
\* was processed.
SkipsKnownLanes == Invoking => ~AllKnown(BestGridLane)

----------------------------------------------------------------------------
(* The scorer task and its host: the Disambiguator holds the progress       *)
(* receiver, the result receiver and the terminate sender; the host presses *)
(* Stop, or replaces the Disambiguator after an edit of the document.       *)

\* The step the task is about to take ends in a progress.send
Sends ==
    \/ /\ scorer_pc = "idle"
       /\ cache_solve(solve_cache, to_puzzle(picture)).pc = "done"
       /\ cache_solve(solve_cache, to_puzzle(picture)).report.cells_left = 0
    \/ /\ scorer_pc = "cell"
       /\ progress_at(picture, next_cell \div y_size(picture),
                      next_cell % y_size(picture)) # <<>>
       /\ score_cell(picture, (next_cell \div y_size(picture)) + 1,
                     (next_cell % y_size(picture)) + 1, keys, solve_cache).ok
    \/ /\ scorer_pc = "check"
       /\ after_cell(picture, next_cell, fired) = "done"

\* A step of the task whose value, if it sends one, is delivered
TaskStep ==
    /\ progress_r \/ ~Sends
    /\ Baseline \/ ScoreCell \/ CheckTerminate

\* progress.send(..).unwrap() on a channel whose receiver was dropped
SendFails ==
    /\ scorer_pc \in {"idle", "cell", "check"}
    /\ ~progress_r
    /\ Sends
    /\ scorer_pc' = "panic"
    /\ UNCHANGED <<avars, lvars, gvars, evars, progress_r, solve_cache,
                   orig_cells_left, res, next_cell, keys, sent, fired,
                   late_cells>>

\* Stop: terminate_s.send(()) of the Disambiguator that started the task
Stop ==
    /\ progress_r
    /\ Cancel

\* get_or_refresh after an edit: Disambiguator::new replaces the one that
\* started the task, whose receivers and terminate sender are dropped
Refresh ==
    /\ scorer_pc \in {"idle", "cell", "check"}
    /\ progress_r
    /\ progress_r' = FALSE
    /\ UNCHANGED <<avars, lvars, gvars, evars, scorer_pc, solve_cache,
                   orig_cells_left, res, next_cell, keys, sent, fired,
                   late_cells>>

NextHosted == TaskStep \/ SendFails \/ Stop \/ Refresh

SpecHosted == InitScorer /\ [][NextHosted]_vars

\* C30: whatever the host does while the task runs, the task does not abort
\* on a progress value that cannot be delivered: it ends by returning res.
TaskSurvivesHost == ~(scorer_pc = "panic" /\ ~progress_r)

====
